---------------------------- MODULE Spec2Model ----------------------------
(***************************************************************************)
(* A model of the kext manager of IOKitUser (kext.subproj/KXKextManager.c): *)
(* the version-chain builder, the dependency splicer, the candidate-set     *)
(* accessors and the relationship invalidation controller.                  *)
(*                                                                          *)
(* Every handler of the C file is an operator from a manager state (a       *)
(* record holding every field of the manager, of its repositories and of    *)
(* its kexts) to the manager state it leaves behind; an action of the       *)
(* state machine applies one handler to the current state.  Handlers call   *)
(* one another exactly where the C code does.                               *)
(***************************************************************************)
EXTENDS Integers, Sequences, FiniteSets, TLC

(***************************************************************************)
(* Bounds of the model.                                                     *)
(***************************************************************************)
NumKexts == 3      \* kext objects that exist
NumRepos == 2      \* repository objects that exist
NumIds == 2        \* distinct CFBundleIdentifiers
MaxVersion == 3    \* versions are 1..MaxVersion
MaxDepth == 2      \* cap on clearRelationshipsDisableCount in the guards
ControllerKexts == 2  \* kexts on disk in the controller's specification

NULL == 0
Kexts == 1..NumKexts
Repos == 1..NumRepos
Ids == 1..NumIds
Versions == 1..MaxVersion
KextOrNull == Kexts \cup {NULL}

VARIABLES
    \* ---- the kexts as the repositories scanned them (never change) ----
    kextInfo,                 \* [Kexts -> [bundleIdentifier, version,
                              \*            compatibleVersion, isValid, isEnabled,
                              \*            isEligibleDuringSafeBoot]]
    scan,                     \* [Repos -> Seq(Kexts)]: what a scan of r yields
    \* ---- fields of each KXKext ----
    priorVersion,             \* [Kexts -> KextOrNull]
    duplicateVersion,         \* [Kexts -> KextOrNull]
    loadFailed,               \* [Kexts -> BOOLEAN]
    hasAllDependencies,       \* [Kexts -> BOOLEAN]
    isLoaded,                 \* [Kexts -> BOOLEAN]
    otherVersionIsLoaded,     \* [Kexts -> BOOLEAN]
    isAuthentic,              \* [Kexts -> BOOLEAN]
    \* ---- fields of each KXKextRepository ----
    repoCandidateKexts,       \* [Repos -> Seq(Kexts)]
    repoBadKexts,             \* [Repos -> Seq(Kexts)]
    \* ---- fields of struct __KXKextManager ----
    repositoryList,           \* Seq(Repos)
    candidateKexts,           \* [Ids -> KextOrNull], NULL: no such key
    kextsWithMissingDependencies,   \* Seq(Kexts)
    clearRelationshipsDisableCount,
    needsClearRelationships,
    needsCalculateRelationships,
    performsFullTests,
    performLoadsInTask,
    safeBoot,
    \* ---- observation of the last call ----
    lastOp,                   \* the call: name, arguments, state at entry, result
    log,                      \* what the call did inside, in order
    window                    \* the disable()..enable() window being observed

vars == << kextInfo, scan, priorVersion, duplicateVersion, loadFailed,
           hasAllDependencies, isLoaded, otherVersionIsLoaded, isAuthentic,
           repoCandidateKexts, repoBadKexts, repositoryList, candidateKexts,
           kextsWithMissingDependencies, clearRelationshipsDisableCount,
           needsClearRelationships, needsCalculateRelationships,
           performsFullTests, performLoadsInTask, safeBoot,
           lastOp, log, window >>

(***************************************************************************)
(* The manager state as one record, and its write-back.                     *)
(***************************************************************************)
Cur ==
    [ priorVersion |-> priorVersion,
      duplicateVersion |-> duplicateVersion,
      loadFailed |-> loadFailed,
      hasAllDependencies |-> hasAllDependencies,
      isLoaded |-> isLoaded,
      otherVersionIsLoaded |-> otherVersionIsLoaded,
      isAuthentic |-> isAuthentic,
      repoCandidateKexts |-> repoCandidateKexts,
      repoBadKexts |-> repoBadKexts,
      repositoryList |-> repositoryList,
      candidateKexts |-> candidateKexts,
      kextsWithMissingDependencies |-> kextsWithMissingDependencies,
      clearRelationshipsDisableCount |-> clearRelationshipsDisableCount,
      needsClearRelationships |-> needsClearRelationships,
      needsCalculateRelationships |-> needsCalculateRelationships,
      performsFullTests |-> performsFullTests,
      performLoadsInTask |-> performLoadsInTask,
      safeBoot |-> safeBoot,
      info |-> kextInfo,
      scan |-> scan,
      result |-> NULL,
      log |-> << >> ]

Commit(s) ==
    /\ priorVersion' = s.priorVersion
    /\ duplicateVersion' = s.duplicateVersion
    /\ loadFailed' = s.loadFailed
    /\ hasAllDependencies' = s.hasAllDependencies
    /\ isLoaded' = s.isLoaded
    /\ otherVersionIsLoaded' = s.otherVersionIsLoaded
    /\ isAuthentic' = s.isAuthentic
    /\ repoCandidateKexts' = s.repoCandidateKexts
    /\ repoBadKexts' = s.repoBadKexts
    /\ repositoryList' = s.repositoryList
    /\ candidateKexts' = s.candidateKexts
    /\ kextsWithMissingDependencies' = s.kextsWithMissingDependencies
    /\ clearRelationshipsDisableCount' = s.clearRelationshipsDisableCount
    /\ needsClearRelationships' = s.needsClearRelationships
    /\ needsCalculateRelationships' = s.needsCalculateRelationships
    /\ performsFullTests' = s.performsFullTests
    /\ performLoadsInTask' = s.performLoadsInTask
    /\ safeBoot' = s.safeBoot
    /\ log' = s.log
    /\ UNCHANGED << kextInfo, scan >>

Range(q) == { q[i] : i \in 1..Len(q) }

\* What a handler did, for the record: the kind of step, the disable count
\* it ran at, a flag and a kext (NULL when none) that the kind gives meaning.
Event(s, ev, flag, k) ==
    [ev |-> ev, depth |-> s.clearRelationshipsDisableCount, flag |-> flag, k |-> k]

Note(s, e) == [s EXCEPT !.log = Append(@, e)]

Stale(s) == s.needsClearRelationships \/ s.needsCalculateRelationships

(***************************************************************************)
(* Kext accessors (KXKext.h), read off the kext record.                     *)
(***************************************************************************)
KXKextGetBundleIdentifier(s, k) == s.info[k].bundleIdentifier
KXKextGetVersion(s, k) == s.info[k].version
KXKextIsValid(s, k) == s.info[k].isValid
KXKextIsEnabled(s, k) == s.info[k].isEnabled
KXKextIsEligibleDuringSafeBoot(s, k) == s.info[k].isEligibleDuringSafeBoot

(***************************************************************************)
(* Repository collaborators.                                                *)
(***************************************************************************)
RepoKexts(s, r) == Range(s.repoCandidateKexts[r]) \cup Range(s.repoBadKexts[r])

ListedKexts(s) == UNION { RepoKexts(s, r) : r \in Range(s.repositoryList) }

\* _KXKextRepositoryClearRelationships on every repository of the list:
\* each kext of the repository drops its version links and its dependencies.
RepositoriesClearRelationships(s) ==
    LET Unlink(gone) ==
            [s EXCEPT
                !.priorVersion = [k \in Kexts |-> IF k \in gone THEN NULL ELSE @[k]],
                !.duplicateVersion = [k \in Kexts |-> IF k \in gone THEN NULL ELSE @[k]],
                !.hasAllDependencies = [k \in Kexts |-> IF k \in gone THEN FALSE ELSE @[k]]]
    IN Unlink(ListedKexts(s))

\* _KXKextRepositoryClearDependencyRelationships on every repository of the list.
RepositoriesClearDependencyRelationships(s) ==
    LET Unlink(gone) ==
            [s EXCEPT
                !.hasAllDependencies = [k \in Kexts |-> IF k \in gone THEN FALSE ELSE @[k]]]
    IN Unlink(ListedKexts(s))

(***************************************************************************)
(* The relationship invalidation controller.                                *)
(***************************************************************************)
StructureEmpty(s) ==
    /\ \A i \in Ids : s.candidateKexts[i] = NULL
    /\ s.kextsWithMissingDependencies = << >>

\* The teardown that forgets to reset needsClearRelationships.
__KXKextManagerClearRelationshipsKeepsFlag(s) ==
    LET t == Note(RepositoriesClearRelationships(s),
                  Event(s, "teardown", ~StructureEmpty(s), NULL))
    IN [t EXCEPT
          !.candidateKexts = [i \in Ids |-> NULL],
          !.kextsWithMissingDependencies = << >>,
          !.needsCalculateRelationships = TRUE]

\* The teardown that leaves the version links of the kexts in place.
__KXKextManagerClearRelationshipsKeepsLinks(s) ==
    LET t == Note(s, Event(s, "teardown", ~StructureEmpty(s), NULL))
    IN [t EXCEPT
          !.candidateKexts = [i \in Ids |-> NULL],
          !.kextsWithMissingDependencies = << >>,
          !.needsClearRelationships = FALSE,
          !.needsCalculateRelationships = TRUE]

\* __KXKextManagerClearRelationships: the structural teardown.
__KXKextManagerClearRelationships(s) ==
    LET t == Note(RepositoriesClearRelationships(s),
                  Event(s, "teardown", ~StructureEmpty(s), NULL))
    IN [t EXCEPT
          !.candidateKexts = [i \in Ids |-> NULL],
          !.kextsWithMissingDependencies = << >>,
          !.needsClearRelationships = FALSE,
          !.needsCalculateRelationships = TRUE]

\* The clearing of the dependencies that leaves the list of the kexts with
\* missing dependencies as it is.
__KXKextManagerClearDependencyRelationshipsKeepsList(s) ==
    RepositoriesClearDependencyRelationships(s)

\* __KXKextManagerClearDependencyRelationships
__KXKextManagerClearDependencyRelationships(s) ==
    [RepositoriesClearDependencyRelationships(s) EXCEPT
        !.kextsWithMissingDependencies = << >>]

\* The public clear without its test of the disable count.
KXKextManagerClearRelationshipsUnguarded(s) ==
    LET r == Note(s, Event(s, "request", FALSE, NULL))
    IN RepositoriesClearRelationships(__KXKextManagerClearRelationships(r))

\* The public clear that defers whatever the disable count.
KXKextManagerClearRelationshipsAlwaysDeferred(s) ==
    LET r == Note(s, Event(s, "request", TRUE, NULL))
    IN [r EXCEPT !.needsClearRelationships = TRUE,
                 !.needsCalculateRelationships = TRUE]

\* KXKextManagerClearRelationships: the request is noted with whether it was
\* deferred.
KXKextManagerClearRelationships(s) ==
    LET r == Note(s, Event(s, "request", s.clearRelationshipsDisableCount > 0, NULL))
    IN IF r.clearRelationshipsDisableCount > 0
       THEN [r EXCEPT !.needsClearRelationships = TRUE,
                      !.needsCalculateRelationships = TRUE]
       ELSE RepositoriesClearRelationships(__KXKextManagerClearRelationships(r))

\* The enable without the floor of its decrement.
EnableClearRelationshipsNoFloor(s) ==
    LET t == [s EXCEPT !.clearRelationshipsDisableCount = @ - 1]
    IN IF t.needsClearRelationships
       THEN KXKextManagerClearRelationships(t)
       ELSE t

\* The enable that performs a deferred clear whatever depth is left.
EnableClearRelationshipsAnyDepth(s) ==
    LET t == IF s.clearRelationshipsDisableCount > 0
             THEN [s EXCEPT !.clearRelationshipsDisableCount = @ - 1]
             ELSE s
    IN IF t.needsClearRelationships
       THEN RepositoriesClearRelationships(__KXKextManagerClearRelationships(t))
       ELSE t

\* The enable that only decrements.
EnableClearRelationshipsNoClear(s) ==
    IF s.clearRelationshipsDisableCount > 0
    THEN [s EXCEPT !.clearRelationshipsDisableCount = @ - 1]
    ELSE s

\* KXKextManagerEnableClearRelationships
KXKextManagerEnableClearRelationships(s) ==
    LET t == IF s.clearRelationshipsDisableCount > 0
             THEN [s EXCEPT !.clearRelationshipsDisableCount = @ - 1]
             ELSE s
    IN IF t.needsClearRelationships
       THEN KXKextManagerClearRelationships(t)
       ELSE t

\* KXKextManagerDisableClearRelationships
KXKextManagerDisableClearRelationships(s) ==
    [s EXCEPT !.clearRelationshipsDisableCount = @ + 1]


(***************************************************************************)
(* The version chain builder.                                               *)
(***************************************************************************)
RECURSIVE _KXKextAddDuplicateVersionKext(_, _, _)
\* _KXKextAddDuplicateVersionKext (KXKext.c): dupKext goes to the end of the
\* duplicate chain hanging off aKext.
_KXKextAddDuplicateVersionKext(s, aKext, dupKext) ==
    IF s.duplicateVersion[aKext] = NULL
    THEN [s EXCEPT !.duplicateVersion[aKext] = dupKext]
    ELSE _KXKextAddDuplicateVersionKext(s, s.duplicateVersion[aKext], dupKext)

RECURSIVE _KXKextAddPriorOrDuplicateVersionKext(_, _, _)
\* _KXKextAddPriorOrDuplicateVersionKext (KXKext.c): priorKext, whose version
\* is not greater than aKext's, becomes a duplicate of the chain node of its
\* own version, or a new node at its place in the descending chain.
_KXKextAddPriorOrDuplicateVersionKext(s, aKext, priorKext) ==
    LET next == s.priorVersion[aKext] IN
    IF KXKextGetVersion(s, priorKext) = KXKextGetVersion(s, aKext)
    THEN _KXKextAddDuplicateVersionKext(s, aKext, priorKext)
    ELSE IF next = NULL
    THEN [s EXCEPT !.priorVersion[aKext] = priorKext]
    ELSE IF KXKextGetVersion(s, priorKext) > KXKextGetVersion(s, next)
    THEN [s EXCEPT !.priorVersion[aKext] = priorKext,
                   !.priorVersion[priorKext] = next]
    ELSE _KXKextAddPriorOrDuplicateVersionKext(s, next, priorKext)

\* The filter without its safe-boot test.
IsCandidateNoSafeBoot(s, thisKext) ==
    /\ KXKextIsValid(s, thisKext)
    /\ ~s.loadFailed[thisKext]
    /\ KXKextIsEnabled(s, thisKext)

\* The filter without its test of the load-failed flag.
IsCandidateIgnoringLoadFailed(s, thisKext) ==
    /\ KXKextIsValid(s, thisKext)
    /\ (s.safeBoot => KXKextIsEligibleDuringSafeBoot(s, thisKext))
    /\ KXKextIsEnabled(s, thisKext)

\* The builder's test of a kext "known to be unloadable".
IsCandidate(s, thisKext) ==
    /\ KXKextIsValid(s, thisKext)
    /\ ~s.loadFailed[thisKext]
    /\ (s.safeBoot => KXKextIsEligibleDuringSafeBoot(s, thisKext))
    /\ KXKextIsEnabled(s, thisKext)

\* The builder comparing versions with >= where the code has >.
StoreByIdNewerOrEqual(s, thisKext) ==
    LET thisKextID == KXKextGetBundleIdentifier(s, thisKext)
        alreadyKext == s.candidateKexts[thisKextID]
    IN IF alreadyKext = NULL
       THEN [s EXCEPT !.candidateKexts[thisKextID] = thisKext]
       ELSE IF KXKextGetVersion(s, thisKext) >= KXKextGetVersion(s, alreadyKext)
       THEN [s EXCEPT !.priorVersion[thisKext] = alreadyKext,
                      !.candidateKexts[thisKextID] = thisKext]
       ELSE _KXKextAddPriorOrDuplicateVersionKext(s, alreadyKext, thisKext)

\* The builder in which a kext that equals the head in version takes the
\* head's place and keeps the old head as its duplicate.
StoreByIdLaterEqualLeads(s, thisKext) ==
    LET thisKextID == KXKextGetBundleIdentifier(s, thisKext)
        alreadyKext == s.candidateKexts[thisKextID]
    IN IF alreadyKext = NULL
       THEN [s EXCEPT !.candidateKexts[thisKextID] = thisKext]
       ELSE IF KXKextGetVersion(s, thisKext) > KXKextGetVersion(s, alreadyKext)
       THEN [s EXCEPT !.priorVersion[thisKext] = alreadyKext,
                      !.candidateKexts[thisKextID] = thisKext]
       ELSE IF KXKextGetVersion(s, thisKext) = KXKextGetVersion(s, alreadyKext)
       THEN [s EXCEPT !.candidateKexts[thisKextID] = thisKext,
                      !.duplicateVersion[thisKext] = alreadyKext,
                      !.priorVersion[thisKext] = s.priorVersion[alreadyKext],
                      !.priorVersion[alreadyKext] = NULL]
       ELSE _KXKextAddPriorOrDuplicateVersionKext(s, alreadyKext, thisKext)

\* "store by id, build version chains": one admitted kext enters the set.
StoreById(s, thisKext) ==
    LET thisKextID == KXKextGetBundleIdentifier(s, thisKext)
        alreadyKext == s.candidateKexts[thisKextID]
    IN IF alreadyKext = NULL
       THEN [s EXCEPT !.candidateKexts[thisKextID] = thisKext]
       ELSE IF KXKextGetVersion(s, thisKext) > KXKextGetVersion(s, alreadyKext)
       THEN [s EXCEPT !.priorVersion[thisKext] = alreadyKext,
                      !.candidateKexts[thisKextID] = thisKext]
       ELSE _KXKextAddPriorOrDuplicateVersionKext(s, alreadyKext, thisKext)

RECURSIVE BuildOrder(_, _)
\* The order the two nested loops of the builder meet the kexts in:
\* repository-list order, then each repository's candidate order.
BuildOrder(s, i) ==
    IF i > Len(s.repositoryList)
    THEN << >>
    ELSE s.repoCandidateKexts[s.repositoryList[i]] \o BuildOrder(s, i + 1)

RECURSIVE BuildLoop(_, _, _)
BuildLoop(s, order, n) ==
    IF n > Len(order)
    THEN s
    ELSE BuildLoop(IF IsCandidate(s, order[n]) THEN StoreById(s, order[n]) ELSE s,
                   order, n + 1)

\* KXKextManagerCalculateVersionRelationships
KXKextManagerCalculateVersionRelationships(s) ==
    LET Build(c) == BuildLoop(c, BuildOrder(c, 1), 1)
        b == Build(__KXKextManagerClearDependencyRelationships(
                       __KXKextManagerClearRelationships(s)))
    IN Note([b EXCEPT !.needsCalculateRelationships = FALSE],
            Event(s, "build", Stale(s), NULL))

(***************************************************************************)
(* Candidate set accessors.                                                 *)
(***************************************************************************)
\* "Make sure we have the candidate kexts arranged with their version
\* relationships": the prologue every checking accessor starts with.
EnsureRelationships(s) ==
    LET Calculate(c) == IF c.needsCalculateRelationships
                        THEN KXKextManagerCalculateVersionRelationships(c)
                        ELSE c
    IN Calculate(IF s.needsClearRelationships
                 THEN __KXKextManagerClearRelationships(s)
                 ELSE s)

\* A read of manager->candidateKexts, noted with the stale flags it met.
ReadCandidates(s) == Note(s, Event(s, "read", Stale(s), NULL))

RECURSIVE FindVersion(_, _, _)
FindVersion(s, foundKext, versionNumber) ==
    IF foundKext = NULL \/ KXKextGetVersion(s, foundKext) = versionNumber
    THEN foundKext
    ELSE FindVersion(s, s.priorVersion[foundKext], versionNumber)

\* __KXKextManagerGetKextWithIdentifierAndVersionNumber; versionNumber NULL
\* is the C code's null pointer.
__KXKextManagerGetKextWithIdentifierAndVersionNumber(s, identifier, versionNumber) ==
    LET Find(e, foundKext) ==
            [e EXCEPT !.result = IF versionNumber = NULL
                                 THEN foundKext
                                 ELSE FindVersion(e, foundKext, versionNumber)]
        Lookup(e) == Find(e, e.candidateKexts[identifier])
    IN Lookup(ReadCandidates(EnsureRelationships(s)))

\* KXKextManagerGetKextWithIdentifier
KXKextManagerGetKextWithIdentifier(s, identifier) ==
    __KXKextManagerGetKextWithIdentifierAndVersionNumber(s, identifier, NULL)

RECURSIVE DuplicatesOf(_, _)
\* The duplicate chain hanging off a kext, the kext itself left out.
DuplicatesOf(s, k) ==
    IF s.duplicateVersion[k] = NULL
    THEN << >>
    ELSE << s.duplicateVersion[k] >> \o DuplicatesOf(s, s.duplicateVersion[k])

RECURSIVE ChainWithDuplicates(_, _)
\* From a kext down its prior versions, each followed by its duplicates.
ChainWithDuplicates(s, thisKext) ==
    IF thisKext = NULL
    THEN << >>
    ELSE << thisKext >> \o DuplicatesOf(s, thisKext)
            \o ChainWithDuplicates(s, s.priorVersion[thisKext])

\* KXKextManagerCopyKextsWithIdentifier
KXKextManagerCopyKextsWithIdentifier(s, identifier) ==
    LET Walk(g) == [g EXCEPT !.result = ChainWithDuplicates(g, g.result)]
    IN Walk(KXKextManagerGetKextWithIdentifier(s, identifier))

RECURSIVE BadKextsOfAll(_, _)
BadKextsOfAll(s, i) ==
    IF i > Len(s.repositoryList)
    THEN << >>
    ELSE s.repoBadKexts[s.repositoryList[i]] \o BadKextsOfAll(s, i + 1)

RECURSIVE CopyAllCandidates(_, _)
\* The first loop of KXKextManagerCopyAllKexts: each head, then its prior
\* versions, each prior version followed by its duplicates.
CopyAllCandidates(s, i) ==
    IF i > NumIds
    THEN << >>
    ELSE (IF s.candidateKexts[i] = NULL
          THEN << >>
          ELSE << s.candidateKexts[i] >>
               \o ChainWithDuplicates(s, s.priorVersion[s.candidateKexts[i]]))
         \o CopyAllCandidates(s, i + 1)

\* KXKextManagerCopyAllKexts
KXKextManagerCopyAllKexts(s) ==
    LET Copy(e) == [e EXCEPT !.result = CopyAllCandidates(e, 1) \o BadKextsOfAll(e, 1)]
    IN Copy(ReadCandidates(s))

\* KXKextManagerCopyAllKextPersonalities: the personalities of the heads,
\* each personality standing for the kext it belongs to.
KXKextManagerCopyAllKextPersonalities(s) ==
    LET Copy(e) == [e EXCEPT !.result =
                       SelectSeq([i \in 1..NumIds |-> e.candidateKexts[i]],
                                 LAMBDA k : k # NULL)]
    IN Copy(ReadCandidates(EnsureRelationships(s)))

\* KXKextManagerGetKextsWithMissingDependencies
KXKextManagerGetKextsWithMissingDependencies(s) ==
    [s EXCEPT !.result = s.kextsWithMissingDependencies]

(***************************************************************************)
(* The dependency closure resolver.                                         *)
(***************************************************************************)
\* KXKextResolveDependencies (KXKext.c) on each kext of a set: the kexts of
\* ok are those the dependency-graph collaborator resolves completely.
ResolveDependenciesOf(s, ks, ok) ==
    [s EXCEPT !.hasAllDependencies =
        [k \in Kexts |-> IF k \in ks THEN k \in ok ELSE @[k]]]

\* Every kext of the two-way tree under the heads of the candidate set.
TreeKexts(s) ==
    UNION { Range(ChainWithDuplicates(s, s.candidateKexts[i])) : i \in Ids }

\* The failed kext logged but not appended to the list.
MissingDependenciesNotRecorded(s, k) ==
    Note(s, Event(s, "missing", FALSE, k))

MissingDependencies(s, k) ==
    Note([s EXCEPT !.kextsWithMissingDependencies = Append(@, k)],
         Event(s, "missing", FALSE, k))

RECURSIVE PeekDuplicates(_, _, _)
\* The peek-ahead loop over the duplicates of a primary that passed.
PeekDuplicates(s, dupKext, peekDupKext) ==
    IF peekDupKext = NULL
    THEN s
    ELSE IF ~s.hasAllDependencies[peekDupKext]
    THEN PeekDuplicates(
             [MissingDependencies(s, peekDupKext) EXCEPT
                 !.duplicateVersion[dupKext] = s.duplicateVersion[peekDupKext]],
             dupKext, s.duplicateVersion[peekDupKext])
    ELSE PeekDuplicates(s, peekDupKext, s.duplicateVersion[peekDupKext])

\* The relinking past a failed primary that has no duplicate, without the
\* relinking of the kext checked before it.
RelinkPastKextHeadOnly(s, id, prevKext, nextKext) ==
    IF prevKext # NULL
    THEN s
    ELSE [s EXCEPT !.candidateKexts[id] = nextKext]

\* The relinking past a failed head that drops the identifier instead of
\* handing it to the next version.
RelinkPastKextDropsKey(s, id, prevKext, nextKext) ==
    IF prevKext # NULL
    THEN [s EXCEPT !.priorVersion[prevKext] = nextKext]
    ELSE [s EXCEPT !.candidateKexts[id] = NULL]

\* The relinking past a failed head that leaves the dictionary entry alone
\* when there is no next version.
RelinkPastKextKeepsLastEntry(s, id, prevKext, nextKext) ==
    IF prevKext # NULL
    THEN [s EXCEPT !.priorVersion[prevKext] = nextKext]
    ELSE IF nextKext # NULL
    THEN [s EXCEPT !.candidateKexts[id] = nextKext]
    ELSE s

\* "No duplicate version, so this is a straightforward linked-list
\* manipulation": the kext checked before is linked to the next one; with
\* none before, the dictionary entry becomes the next one or is removed.
RelinkPastKext(s, id, prevKext, nextKext) ==
    IF prevKext # NULL
    THEN [s EXCEPT !.priorVersion[prevKext] = nextKext]
    ELSE [s EXCEPT !.candidateKexts[id] = nextKext]

\* The relinking of a duplicate that does not hand it the prior version of
\* the primary it replaces.
RelinkDuplicateWithoutPrior(s, id, prevKext, dupKext, nextKext) ==
    IF prevKext # NULL
    THEN [s EXCEPT !.priorVersion[prevKext] = dupKext]
    ELSE [s EXCEPT !.candidateKexts[id] = dupKext]

\* "With a duplicate version, things are trickier": the duplicate is linked
\* in where the failed primary was.
RelinkDuplicate(s, id, prevKext, dupKext, nextKext) ==
    IF prevKext # NULL
    THEN [s EXCEPT !.priorVersion[prevKext] = dupKext,
                   !.priorVersion[dupKext] = nextKext]
    ELSE [s EXCEPT !.candidateKexts[id] = dupKext,
                   !.priorVersion[dupKext] = nextKext]

RECURSIVE RemoveWithoutDependencies(_, _, _, _)
\* The second loop of the resolver over one identifier's chain.
RemoveWithoutDependencies(s, id, thisKext, prevKext) ==
    IF thisKext = NULL
    THEN s
    ELSE LET nextKext == s.priorVersion[thisKext]
             dupKext == s.duplicateVersion[thisKext]
         IN IF ~s.hasAllDependencies[thisKext]
            THEN IF dupKext = NULL
                 THEN RemoveWithoutDependencies(
                          RelinkPastKext(MissingDependencies(s, thisKext),
                                         id, prevKext, nextKext),
                          id, nextKext, prevKext)
                 ELSE RemoveWithoutDependencies(
                          RelinkDuplicate(MissingDependencies(s, thisKext),
                                          id, prevKext, dupKext, nextKext),
                          id, dupKext, prevKext)
            ELSE RemoveWithoutDependencies(
                     IF dupKext # NULL
                     THEN PeekDuplicates(s, dupKext, s.duplicateVersion[dupKext])
                     ELSE s,
                     id, nextKext, thisKext)

RECURSIVE RemoveLoop(_, _, _)
\* The second loop runs over the keys and heads copied out of the dictionary
\* before the first loop.
RemoveLoop(s, kexts, i) ==
    IF i > NumIds
    THEN s
    ELSE RemoveLoop(IF kexts[i] = NULL
                    THEN s
                    ELSE RemoveWithoutDependencies(s, i, kexts[i], NULL),
                    kexts, i + 1)

\* KXKextRepositoryResolveBadKextDependencies on every repository of the list.
ResolveBadKextDependencies(s, ok) ==
    ResolveDependenciesOf(s,
        UNION { Range(s.repoBadKexts[r]) : r \in Range(s.repositoryList) }, ok)

\* The resolver that, with the full tests on, treats a bad kext as it treats
\* a candidate: one that does not resolve goes to the list of the kexts with
\* missing dependencies.
KXKextManagerResolveAllKextDependenciesListingBad(s, ok) ==
    LET Unresolved(q) ==
            SelectSeq(BadKextsOfAll(q, 1), LAMBDA b : ~q.hasAllDependencies[b])
        List(q) == [q EXCEPT !.kextsWithMissingDependencies = @ \o Unresolved(q)]
        Bad(q) == IF q.performsFullTests
                  THEN List(ResolveBadKextDependencies(q, ok))
                  ELSE q
        Resolve(r) == Bad(RemoveLoop(ResolveDependenciesOf(r, TreeKexts(r), ok),
                                     r.candidateKexts, 1))
    IN Resolve(ReadCandidates(s))

\* KXKextManagerResolveAllKextDependencies
KXKextManagerResolveAllKextDependencies(s, ok) ==
    LET Bad(q) == IF q.performsFullTests THEN ResolveBadKextDependencies(q, ok) ELSE q
        Resolve(r) == Bad(RemoveLoop(ResolveDependenciesOf(r, TreeKexts(r), ok),
                                     r.candidateKexts, 1))
    IN Resolve(ReadCandidates(s))

(***************************************************************************)
(* Reconciliation with the kernel's module table.                           *)
(***************************************************************************)
\* _KXKextRepositoryMarkKextsNotLoaded on every repository of the list.
MarkKextsNotLoaded(s) ==
    LET Mark(all) ==
            [s EXCEPT
                !.isLoaded = [k \in Kexts |-> IF k \in all THEN FALSE ELSE @[k]],
                !.otherVersionIsLoaded = [k \in Kexts |-> IF k \in all THEN FALSE ELSE @[k]]]
    IN Mark(ListedKexts(s))

\* The marking that passes over the duplicates of each version.
MarkLoadedPrimariesOnly(s, ks, kmod_vers) ==
    LET primaries == { k \in ks : \A j \in Kexts : s.duplicateVersion[j] # k }
    IN [s EXCEPT
           !.isLoaded = [k \in Kexts |->
               IF k \in primaries /\ KXKextGetVersion(s, k) = kmod_vers THEN TRUE ELSE @[k]],
           !.otherVersionIsLoaded = [k \in Kexts |->
               IF k \in primaries /\ KXKextGetVersion(s, k) # kmod_vers THEN TRUE ELSE @[k]]]

\* The marking of one kmod's identifier chain, duplicates included.
MarkLoaded(s, ks, kmod_vers) ==
    [s EXCEPT
        !.isLoaded = [k \in Kexts |->
            IF k \in ks /\ KXKextGetVersion(s, k) = kmod_vers THEN TRUE ELSE @[k]],
        !.otherVersionIsLoaded = [k \in Kexts |->
            IF k \in ks /\ KXKextGetVersion(s, k) # kmod_vers THEN TRUE ELSE @[k]]]

RECURSIVE LoadedModulesLoop(_, _, _)
\* loaded_modules: the kernel's table, each entry a name and a version;
\* a version that does not parse is NULL (VERS_parse_string() < 0).
LoadedModulesLoop(s, loaded_modules, k) ==
    IF k > Len(loaded_modules)
    THEN s
    ELSE IF loaded_modules[k].version = NULL
    THEN LoadedModulesLoop(s, loaded_modules, k + 1)
    ELSE LET Mark(g) == MarkLoaded(g, Range(ChainWithDuplicates(g, g.result)),
                                   loaded_modules[k].version)
         IN LoadedModulesLoop(
                Mark(KXKextManagerGetKextWithIdentifier(s, loaded_modules[k].name)),
                loaded_modules, k + 1)

\* KXKextManagerCheckForLoadedKexts; kmod is what kmod_get_info() gives:
\* whether it succeeded, and the table.
KXKextManagerCheckForLoadedKexts(s, kmod) ==
    LET Query(m) ==
            IF ~kmod.ok
            THEN [Note(m, Event(m, "kmod_get_info", FALSE, NULL))
                     EXCEPT !.result = "Unspecified"]
            ELSE [LoadedModulesLoop(Note(m, Event(m, "kmod_get_info", TRUE, NULL)),
                                    kmod.modules, 1)
                     EXCEPT !.result = "None"]
    IN Query(MarkKextsNotLoaded(s))

RECURSIVE FirstLoaded(_, _)
FirstLoaded(s, checkKext) ==
    IF checkKext = NULL \/ s.isLoaded[checkKext]
    THEN checkKext
    ELSE FirstLoaded(s, s.priorVersion[checkKext])

\* KXKextManagerGetLoadedOrLatestKextWithIdentifier
KXKextManagerGetLoadedOrLatestKextWithIdentifier(s, identifier, kmod) ==
    LET Pick(e, foundKext, loaded) ==
            [e EXCEPT !.result = IF loaded # NULL THEN loaded ELSE foundKext]
        Lookup(e) == Pick(e, e.candidateKexts[identifier],
                          FirstLoaded(e, e.candidateKexts[identifier]))
    IN Lookup(ReadCandidates(
                  KXKextManagerCheckForLoadedKexts(EnsureRelationships(s), kmod)))

\* _KXKextIsCompatibleWithVersionNumber (KXKext.c)
_KXKextIsCompatibleWithVersionNumber(s, k, versionNumber) ==
    /\ s.info[k].compatibleVersion # NULL
    /\ s.info[k].compatibleVersion <= versionNumber
    /\ versionNumber <= KXKextGetVersion(s, k)

RECURSIVE ScanCompatible(_, _, _, _)
ScanCompatible(s, scanKext, versionNumber, foundKext) ==
    IF scanKext = NULL
    THEN foundKext
    ELSE IF _KXKextIsCompatibleWithVersionNumber(s, scanKext, versionNumber)
    THEN IF s.isLoaded[scanKext]
         THEN scanKext
         ELSE ScanCompatible(s, s.priorVersion[scanKext], versionNumber,
                             IF foundKext = NULL THEN scanKext ELSE foundKext)
    ELSE ScanCompatible(s, s.priorVersion[scanKext], versionNumber, foundKext)

\* __KXKextManagerGetKextWithIdentifierCompatibleWithVersionNumber
__KXKextManagerGetKextWithIdentifierCompatibleWithVersionNumber(s, identifier, versionNumber) ==
    LET Scan(e, scanKext) ==
            [e EXCEPT !.result = IF versionNumber = NULL
                                 THEN scanKext
                                 ELSE ScanCompatible(e, scanKext, versionNumber, NULL)]
        Lookup(e) == Scan(e, e.candidateKexts[identifier])
    IN Lookup(ReadCandidates(EnsureRelationships(s)))

(***************************************************************************)
(* Repositories and manager flags.                                          *)
(***************************************************************************)
\* _KXKextRepositoryCreate and _KXKextRepositoryInitWithDirectory: a fresh
\* repository object whose kexts are as scanned.
FreshRepository(s, r) ==
    LET new == Range(s.scan[r]) IN
    [s EXCEPT
        !.repoCandidateKexts[r] = s.scan[r],
        !.repoBadKexts[r] = << >>,
        !.priorVersion = [k \in Kexts |-> IF k \in new THEN NULL ELSE @[k]],
        !.duplicateVersion = [k \in Kexts |-> IF k \in new THEN NULL ELSE @[k]],
        !.loadFailed = [k \in Kexts |-> IF k \in new THEN FALSE ELSE @[k]],
        !.hasAllDependencies = [k \in Kexts |-> IF k \in new THEN FALSE ELSE @[k]],
        !.isLoaded = [k \in Kexts |-> IF k \in new THEN FALSE ELSE @[k]],
        !.otherVersionIsLoaded = [k \in Kexts |-> IF k \in new THEN FALSE ELSE @[k]],
        !.isAuthentic = [k \in Kexts |-> IF k \in new THEN FALSE ELSE @[k]]]

\* KXKextManagerAddRepositoryDirectory
KXKextManagerAddRepositoryDirectory(s, r) ==
    IF r \in Range(s.repositoryList)
    THEN [s EXCEPT !.result = "None"]
    ELSE LET f == FreshRepository(s, r)
         IN [KXKextManagerClearRelationships(
                [f EXCEPT !.repositoryList = Append(@, r)])
                EXCEPT !.result = "None"]

\* _KXKextManagerRemoveRepository
_KXKextManagerRemoveRepository(s, aRepository) ==
    LET c == __KXKextManagerClearDependencyRelationships(
                 KXKextManagerClearRelationships(s))
    IN [c EXCEPT !.repositoryList = SelectSeq(@, LAMBDA r : r # aRepository)]

\* KXKextManagerRemoveRepositoryDirectory
KXKextManagerRemoveRepositoryDirectory(s, r) ==
    IF r \in Range(s.repositoryList)
    THEN _KXKextManagerRemoveRepository(s, r)
    ELSE s

\* KXKextManagerSetSafeBootMode
KXKextManagerSetSafeBootMode(s, flag) == [s EXCEPT !.safeBoot = flag]

\* KXKextManagerSetPerformsFullTests
KXKextManagerSetPerformsFullTests(s, flag) == [s EXCEPT !.performsFullTests = flag]

\* KXKextManagerSetPerformLoadsInTask
KXKextManagerSetPerformLoadsInTask(s, flag) == [s EXCEPT !.performLoadsInTask = flag]

(***************************************************************************)
(* The load orchestrator.                                                   *)
(***************************************************************************)
\* KXKextGetRepository: the repository that holds the kext.
KXKextGetRepository(s, k) ==
    CHOOSE r \in Repos : k \in Range(s.scan[r])

\* The disqualification that does not ask the manager to clear.
_KXKextRepositoryDisqualifyKextWithoutClear(s, r, aKext) ==
    IF aKext \in Range(s.repoCandidateKexts[r])
    THEN Note([s EXCEPT
                  !.repoCandidateKexts[r] = SelectSeq(@, LAMBDA k : k # aKext),
                  !.repoBadKexts[r] = Append(@, aKext)],
              Event(s, "disqualify", TRUE, aKext))
    ELSE s

\* _KXKextRepositoryDisqualifyKext (KXKextRepository.c): the kext moves from
\* the candidates of its repository to its bad kexts, and the manager is
\* asked to clear its relationships.
_KXKextRepositoryDisqualifyKext(s, r, aKext) ==
    IF aKext \in Range(s.repoCandidateKexts[r])
    THEN KXKextManagerClearRelationships(
             Note([s EXCEPT
                      !.repoCandidateKexts[r] = SelectSeq(@, LAMBDA k : k # aKext),
                      !.repoBadKexts[r] = Append(@, aKext)],
                  Event(s, "disqualify", TRUE, aKext)))
    ELSE s

\* KXKextManagerDisqualifyKext
KXKextManagerDisqualifyKext(s, aKext) ==
    _KXKextRepositoryDisqualifyKext(s, KXKextGetRepository(s, aKext), aKext)

\* KXKextAuthenticate (KXKext.c): the collaborator's verdict is auth[k];
\* a kext that passes is marked authentic.
KXKextAuthenticate(s, thisKext, auth) ==
    Note([s EXCEPT !.isAuthentic[thisKext] = (auth[thisKext] = "None")],
         Event(s, "authenticate", auth[thisKext] = "None", thisKext))

\* The fold that keeps the last failure only.
FoldErrorKeepingLast(result, error) == error

\* The fold of one more failure into the result of the walk.
FoldError(result, error) ==
    IF result = "None" \/ result = error THEN error ELSE "Unspecified"

RECURSIVE AuthenticateLoopNoBreak(_, _, _, _, _, _)
\* The walk that goes on past a kext of which another version is loaded,
\* whatever the test mode.
AuthenticateLoopNoBreak(s, kextList, i, result, auth, tolerate) ==
    IF i > Len(kextList)
    THEN [s EXCEPT !.result = result]
    ELSE LET thisKext == kextList[i]
             differs == s.otherVersionIsLoaded[thisKext]
             r1 == IF differs
                   THEN FoldError(result, "DependencyLoadedVersionDiffers")
                   ELSE result
             a == KXKextAuthenticate(s, thisKext, auth)
             r2 == IF auth[thisKext] # "None"
                   THEN FoldError(r1, auth[thisKext])
                   ELSE r1
         IN IF s.isAuthentic[thisKext]
            THEN AuthenticateLoopNoBreak(s, kextList, i + 1, r1, auth, tolerate)
            ELSE IF auth[thisKext] # "Authentication"
            THEN AuthenticateLoopNoBreak(a, kextList, i + 1, r2, auth, tolerate)
            ELSE IF tolerate
            THEN AuthenticateLoopNoBreak(Note(a, Event(a, "inauthentic", TRUE, thisKext)),
                                         kextList, i + 1, r2, auth, tolerate)
            ELSE IF ~s.performsFullTests
            THEN [KXKextManagerDisqualifyKext(a, thisKext) EXCEPT !.result = r2]
            ELSE AuthenticateLoopNoBreak(KXKextManagerDisqualifyKext(a, thisKext),
                                         kextList, i + 1, r2, auth, tolerate)

RECURSIVE AuthenticateLoopStoppingAfterCollect(_, _, _, _, _, _)
\* The walk that, outside full-tests mode, stops after it has put an
\* inauthentic kext in the container.
AuthenticateLoopStoppingAfterCollect(s, kextList, i, result, auth, tolerate) ==
    IF i > Len(kextList)
    THEN [s EXCEPT !.result = result]
    ELSE LET thisKext == kextList[i]
             differs == s.otherVersionIsLoaded[thisKext]
             r1 == IF differs
                   THEN FoldError(result, "DependencyLoadedVersionDiffers")
                   ELSE result
             a == KXKextAuthenticate(s, thisKext, auth)
             r2 == IF auth[thisKext] # "None"
                   THEN FoldError(r1, auth[thisKext])
                   ELSE r1
             d == KXKextManagerDisqualifyKext(a, thisKext)
             c == Note(a, Event(a, "inauthentic", TRUE, thisKext))
         IN IF differs /\ ~s.performsFullTests
            THEN [Note(s, Event(s, "conflict", TRUE, thisKext)) EXCEPT !.result = r1]
            ELSE IF s.isAuthentic[thisKext]
            THEN AuthenticateLoopStoppingAfterCollect(s, kextList, i + 1, r1, auth, tolerate)
            ELSE IF auth[thisKext] # "Authentication"
            THEN AuthenticateLoopStoppingAfterCollect(a, kextList, i + 1, r2, auth, tolerate)
            ELSE IF tolerate /\ ~s.performsFullTests
            THEN [c EXCEPT !.result = r2]
            ELSE IF tolerate
            THEN AuthenticateLoopStoppingAfterCollect(c, kextList, i + 1, r2, auth, tolerate)
            ELSE IF ~s.performsFullTests
            THEN [d EXCEPT !.result = r2]
            ELSE AuthenticateLoopStoppingAfterCollect(d, kextList, i + 1, r2, auth, tolerate)

RECURSIVE AuthenticateLoopNoDisqualify(_, _, _, _, _, _)
\* The walk that stops on an inauthentic kext without disqualifying it.
AuthenticateLoopNoDisqualify(s, kextList, i, result, auth, tolerate) ==
    IF i > Len(kextList)
    THEN [s EXCEPT !.result = result]
    ELSE LET thisKext == kextList[i]
             differs == s.otherVersionIsLoaded[thisKext]
             r1 == IF differs
                   THEN FoldError(result, "DependencyLoadedVersionDiffers")
                   ELSE result
             a == KXKextAuthenticate(s, thisKext, auth)
             r2 == IF auth[thisKext] # "None"
                   THEN FoldError(r1, auth[thisKext])
                   ELSE r1
         IN IF differs /\ ~s.performsFullTests
            THEN [Note(s, Event(s, "conflict", TRUE, thisKext)) EXCEPT !.result = r1]
            ELSE IF s.isAuthentic[thisKext]
            THEN AuthenticateLoopNoDisqualify(s, kextList, i + 1, r1, auth, tolerate)
            ELSE IF auth[thisKext] # "Authentication"
            THEN AuthenticateLoopNoDisqualify(a, kextList, i + 1, r2, auth, tolerate)
            ELSE IF tolerate
            THEN AuthenticateLoopNoDisqualify(Note(a, Event(a, "inauthentic", TRUE, thisKext)),
                                              kextList, i + 1, r2, auth, tolerate)
            ELSE IF ~s.performsFullTests
            THEN [a EXCEPT !.result = r2]
            ELSE AuthenticateLoopNoDisqualify(a, kextList, i + 1, r2, auth, tolerate)

RECURSIVE AuthenticateLoop(_, _, _, _, _, _)
\* The walk over the closure; tolerate says the caller passed a container
\* for inauthentic kexts.
AuthenticateLoop(s, kextList, i, result, auth, tolerate) ==
    IF i > Len(kextList)
    THEN [s EXCEPT !.result = result]
    ELSE LET thisKext == kextList[i]
             differs == s.otherVersionIsLoaded[thisKext]
             r1 == IF differs
                   THEN FoldError(result, "DependencyLoadedVersionDiffers")
                   ELSE result
             a == KXKextAuthenticate(s, thisKext, auth)
             r2 == IF auth[thisKext] # "None"
                   THEN FoldError(r1, auth[thisKext])
                   ELSE r1
         IN IF differs /\ ~s.performsFullTests
            THEN [Note(s, Event(s, "conflict", TRUE, thisKext)) EXCEPT !.result = r1]
            ELSE IF s.isAuthentic[thisKext]
            THEN AuthenticateLoop(s, kextList, i + 1, r1, auth, tolerate)
            ELSE IF auth[thisKext] # "Authentication"
            THEN AuthenticateLoop(a, kextList, i + 1, r2, auth, tolerate)
            ELSE IF tolerate
            THEN AuthenticateLoop(Note(a, Event(a, "inauthentic", TRUE, thisKext)),
                                  kextList, i + 1, r2, auth, tolerate)
            ELSE IF ~s.performsFullTests
            THEN [KXKextManagerDisqualifyKext(a, thisKext) EXCEPT !.result = r2]
            ELSE AuthenticateLoop(KXKextManagerDisqualifyKext(a, thisKext),
                                  kextList, i + 1, r2, auth, tolerate)

\* The resolution that disqualifies a target whose dependencies it cannot
\* resolve.
ResolveAndAuthenticateDisqualifying(s, aKext, env, tolerate) ==
    LET Resolve(c) ==
            Note([c EXCEPT !.hasAllDependencies[aKext] = (env.resolve = "None")],
                 Event(c, "resolve", env.resolve = "None", aKext))
        Finish(w) ==
            [KXKextManagerEnableClearRelationships(w) EXCEPT !.result = w.result]
        Authenticate(d) ==
            IF env.resolve # "None"
            THEN [KXKextManagerDisqualifyKext(d, aKext) EXCEPT
                     !.kextsWithMissingDependencies = Append(@, aKext),
                     !.result = env.resolve]
            ELSE Finish(AuthenticateLoop(KXKextManagerDisableClearRelationships(d),
                                         Append(env.dependencies, aKext), 1, "None",
                                         env.auth, tolerate))
    IN Authenticate(Resolve(__KXKextManagerClearDependencyRelationships(s)))

\* The resolution and the walk without the disable and enable around the
\* walk.
ResolveAndAuthenticateNoDisable(s, aKext, env, tolerate) ==
    LET Resolve(c) ==
            Note([c EXCEPT !.hasAllDependencies[aKext] = (env.resolve = "None")],
                 Event(c, "resolve", env.resolve = "None", aKext))
        Authenticate(d) ==
            IF env.resolve # "None"
            THEN [d EXCEPT !.kextsWithMissingDependencies = Append(@, aKext),
                           !.result = env.resolve]
            ELSE AuthenticateLoop(d, Append(env.dependencies, aKext), 1, "None",
                                  env.auth, tolerate)
    IN Authenticate(Resolve(__KXKextManagerClearDependencyRelationships(s)))

\* The part of the preparation from "Now resolve dependencies on the kext
\* being loaded" on.  env.resolve is the result of KXKextResolveDependencies,
\* env.dependencies what KXKextCopyAllDependencies gives, env.auth the
\* verdict of KXKextAuthenticate on each kext.
ResolveAndAuthenticate(s, aKext, env, tolerate) ==
    LET Resolve(c) ==
            Note([c EXCEPT !.hasAllDependencies[aKext] = (env.resolve = "None")],
                 Event(c, "resolve", env.resolve = "None", aKext))
        Finish(w) ==
            [KXKextManagerEnableClearRelationships(w) EXCEPT !.result = w.result]
        Authenticate(d) ==
            IF env.resolve # "None"
            THEN [d EXCEPT !.kextsWithMissingDependencies = Append(@, aKext),
                           !.result = env.resolve]
            ELSE Finish(AuthenticateLoop(KXKextManagerDisableClearRelationships(d),
                                         Append(env.dependencies, aKext), 1, "None",
                                         env.auth, tolerate))
    IN Authenticate(Resolve(__KXKextManagerClearDependencyRelationships(s)))

\* The check of the loaded kexts that goes on when the kernel's table could
\* not be read.
CheckLoadedAndResolveIgnoringQueryFailure(s, aKext, check_loaded_for_dependencies, do_load, env, tolerate) ==
    LET Checked(l) ==
            IF do_load /\ l.isLoaded[aKext]
            THEN [l EXCEPT !.result = "AlreadyLoaded"]
            ELSE IF do_load /\ l.otherVersionIsLoaded[aKext]
            THEN [l EXCEPT !.result = "LoadedVersionDiffers"]
            ELSE ResolveAndAuthenticate(l, aKext, env, tolerate)
    IN IF ~check_loaded_for_dependencies
       THEN ResolveAndAuthenticate(s, aKext, env, tolerate)
       ELSE Checked(KXKextManagerCheckForLoadedKexts(s, env.kmod))

\* The check of the loaded kexts that answers AlreadyLoaded whichever
\* version is loaded.
CheckLoadedAndResolveOneError(s, aKext, check_loaded_for_dependencies, do_load, env, tolerate) ==
    LET Checked(l) ==
            IF l.result # "None"
            THEN l
            ELSE IF do_load /\ (l.isLoaded[aKext] \/ l.otherVersionIsLoaded[aKext])
            THEN [l EXCEPT !.result = "AlreadyLoaded"]
            ELSE ResolveAndAuthenticate(l, aKext, env, tolerate)
    IN IF ~check_loaded_for_dependencies
       THEN ResolveAndAuthenticate(s, aKext, env, tolerate)
       ELSE Checked(KXKextManagerCheckForLoadedKexts(s, env.kmod))

\* The part of the preparation from "Before doing anything more check which
\* kexts are already loaded" on.
CheckLoadedAndResolve(s, aKext, check_loaded_for_dependencies, do_load, env, tolerate) ==
    LET Checked(l) ==
            IF l.result # "None"
            THEN l
            ELSE IF do_load /\ l.isLoaded[aKext]
            THEN [l EXCEPT !.result = "AlreadyLoaded"]
            ELSE IF do_load /\ l.otherVersionIsLoaded[aKext]
            THEN [l EXCEPT !.result = "LoadedVersionDiffers"]
            ELSE ResolveAndAuthenticate(l, aKext, env, tolerate)
    IN IF ~check_loaded_for_dependencies
       THEN ResolveAndAuthenticate(s, aKext, env, tolerate)
       ELSE Checked(KXKextManagerCheckForLoadedKexts(s, env.kmod))

\* The preparation that tests the enabled flag before the boot level.
_KXKextManagerPrepareKextForLoadingDisabledFirst(s, aKext, check_loaded_for_dependencies, do_load, env, tolerate) ==
    IF ~KXKextIsValid(s, aKext)
    THEN [s EXCEPT !.result = "Validation"]
    ELSE IF ~KXKextIsEnabled(s, aKext)
    THEN [s EXCEPT !.result = "Disabled"]
    ELSE IF s.safeBoot /\ ~KXKextIsEligibleDuringSafeBoot(s, aKext)
    THEN [s EXCEPT !.result = "BootLevel"]
    ELSE CheckLoadedAndResolve(IF s.needsCalculateRelationships
                               THEN KXKextManagerCalculateVersionRelationships(s)
                               ELSE s,
                               aKext, check_loaded_for_dependencies,
                               do_load, env, tolerate)

\* _KXKextManagerPrepareKextForLoading
_KXKextManagerPrepareKextForLoading(s, aKext, check_loaded_for_dependencies, do_load, env, tolerate) ==
    LET Calculate(c) == IF c.needsCalculateRelationships
                        THEN KXKextManagerCalculateVersionRelationships(c)
                        ELSE c
        e == Calculate(IF s.needsClearRelationships
                       THEN __KXKextManagerClearDependencyRelationships(
                                __KXKextManagerClearRelationships(s))
                       ELSE s)
    IN IF ~KXKextIsValid(s, aKext)
       THEN [s EXCEPT !.result = "Validation"]
       ELSE IF s.safeBoot /\ ~KXKextIsEligibleDuringSafeBoot(s, aKext)
       THEN [s EXCEPT !.result = "BootLevel"]
       ELSE IF ~KXKextIsEnabled(s, aKext)
       THEN [s EXCEPT !.result = "Disabled"]
       ELSE CheckLoadedAndResolve(e, aKext, check_loaded_for_dependencies,
                                  do_load, env, tolerate)

\* The parent that takes the child's result whatever waitpid() reports.
PerformLoadTrustingChild(s, env) ==
    IF ~s.performLoadsInTask /\ env.fork = "failed"
    THEN "Unspecified"
    ELSE env.kload

\* The result of "Perform the load": in task, or in a forked child whose
\* exit the parent waits for.  env.kload is the result of
\* kload_load_dgraph(), which the child hands to exit(); env.fork is what
\* fork() and waitpid() give: fork() fails, or the status says the child
\* exited, was ended by a signal, has stopped, or none of these ("other"),
\* or waitpid() itself fails and leaves the status at the 0 it was cleared
\* to, which reads as an exit with status 0 (the return value of waitpid()
\* is not looked at).
PerformLoad(s, env) ==
    IF ~s.performLoadsInTask
    THEN CASE env.fork = "failed" -> "Unspecified"
           [] env.fork = "exited" -> env.kload
           [] env.fork = "waitfailed" -> "None"
           [] OTHER -> "ChildTask"
    ELSE env.kload

\* The result of _KXKextManagerLoadKextUsingOptions before its finish label.
\* env.dgraph says whether _KXKextCreateDgraph gave a graph, env.addresses
\* how setting load addresses went ("skipped" when the branch is not taken).
LoadResult(s, env) ==
    IF ~env.dgraph
    THEN "Unspecified"
    ELSE IF env.addresses = "invalid"
    THEN "InvalidArgument"
    ELSE IF env.addresses = "error"
    THEN "Unspecified"
    ELSE PerformLoad(s, env)

\* The finish label that flags the kext without requesting the clear.
FinishLoadWithoutClear(s, aKext, result) ==
    IF result # "None" /\ result # "AlreadyLoaded"
    THEN [s EXCEPT !.loadFailed[aKext] = TRUE, !.result = result]
    ELSE [s EXCEPT !.result = result]

\* The finish label of _KXKextManagerLoadKextUsingOptions.
FinishLoad(s, aKext, result) ==
    IF result # "None" /\ result # "AlreadyLoaded"
    THEN [KXKextManagerClearRelationships(
             [s EXCEPT !.loadFailed[aKext] = TRUE]) EXCEPT !.result = result]
    ELSE [s EXCEPT !.result = result]

\* _KXKextManagerLoadKextUsingOptions
_KXKextManagerLoadKextUsingOptions(s, aKext, env) ==
    LET x == Note(s, Event(s, "execute", env.dgraph, aKext))
    IN FinishLoad(IF ~env.dgraph THEN KXKextManagerDisqualifyKext(x, aKext) ELSE x,
                  aKext, LoadResult(s, env))

\* The load request that goes on to the execution whatever the preparation
\* returned.
KXKextManagerLoadKextUsingOptionsRegardless(s, aKext, check_loaded_for_dependencies, do_load, env) ==
    _KXKextManagerLoadKextUsingOptions(
        _KXKextManagerPrepareKextForLoading(
            s, aKext, check_loaded_for_dependencies, do_load, env, FALSE),
        aKext, env)

\* KXKextManagerLoadKextUsingOptions
KXKextManagerLoadKextUsingOptions(s, aKext, check_loaded_for_dependencies, do_load, env) ==
    LET Load(p) == IF p.result # "None"
                   THEN p
                   ELSE _KXKextManagerLoadKextUsingOptions(p, aKext, env)
    IN Load(_KXKextManagerPrepareKextForLoading(
                s, aKext, check_loaded_for_dependencies, do_load, env, FALSE))

(***************************************************************************)
(* The state machine.                                                       *)
(***************************************************************************)
KextRecords ==
    [ bundleIdentifier : Ids, version : Versions, compatibleVersion : {1},
      isValid : BOOLEAN, isEnabled : BOOLEAN, isEligibleDuringSafeBoot : BOOLEAN ]

\* Repository r scans the kexts r, r + NumRepos, r + 2 * NumRepos, ...
ScanOf(r) ==
    SelectSeq([k \in 1..NumKexts |-> k], LAMBDA k : (k - 1) % NumRepos = r - 1)

Sound(info, k) ==
    info[k].isValid /\ info[k].isEnabled /\ info[k].isEligibleDuringSafeBoot

NoWindow == [phase |-> "none", emptied |-> 0, atEnable |-> 0, checkedAfter |-> FALSE]

\* What the collaborators of one load request answer.
Env(kmod, resolve, dependencies, auth, dgraph, addresses, fork, kload) ==
    [ kmod |-> kmod, resolve |-> resolve, dependencies |-> dependencies,
      auth |-> auth, dgraph |-> dgraph, addresses |-> addresses,
      fork |-> fork, kload |-> kload ]

NoModules == [ok |-> TRUE, modules |-> << >>]
NoKmodInfo == [ok |-> FALSE, modules |-> << >>]
AllAuthentic == [k \in Kexts |-> "None"]

\* What a call that is not a load request asked of the kernel: nothing.
NoRequest ==
    [ check |-> FALSE, kmod |-> NoModules, do_load |-> FALSE, tolerate |-> FALSE,
      env |-> Env(NoModules, "None", << >>, AllAuthentic, TRUE, "skipped",
                  "exited", "None") ]

\* KXKextManagerInit.
InitManager ==
    /\ priorVersion = [k \in Kexts |-> NULL]
    /\ duplicateVersion = [k \in Kexts |-> NULL]
    /\ loadFailed = [k \in Kexts |-> FALSE]
    /\ hasAllDependencies = [k \in Kexts |-> FALSE]
    /\ isLoaded = [k \in Kexts |-> FALSE]
    /\ otherVersionIsLoaded = [k \in Kexts |-> FALSE]
    /\ isAuthentic = [k \in Kexts |-> FALSE]
    /\ repoCandidateKexts = [r \in Repos |-> << >>]
    /\ repoBadKexts = [r \in Repos |-> << >>]
    /\ repositoryList = << >>
    /\ candidateKexts = [i \in Ids |-> NULL]
    /\ kextsWithMissingDependencies = << >>
    /\ clearRelationshipsDisableCount = 0
    /\ needsClearRelationships = FALSE
    /\ needsCalculateRelationships = TRUE
    /\ performsFullTests = FALSE
    /\ lastOp = [ name |-> "Init", arg |-> NULL, depth |-> 0, pending |-> FALSE,
                  stale |-> TRUE,
                  result |-> [kext |-> NULL, kexts |-> << >>, error |-> "None"],
                  request |-> NoRequest ]
    /\ log = << >>

Teardowns(l) == Len(SelectSeq(l, LAMBDA e : e.ev = "teardown"))
Emptyings(l) == Len(SelectSeq(l, LAMBDA e : e.ev = "teardown" /\ e.flag))

\* The accessors that start with the stale-flag prologue.
CheckingReads ==
    { "GetKextWithIdentifier", "GetKextWithIdentifierAndVersion",
      "GetKextCompatibleWithVersion", "GetLoadedOrLatestKext",
      "CopyKextsWithIdentifier", "CopyAllKextPersonalities" }

Reads == CheckingReads \cup { "CopyAllKexts", "GetKextsWithMissingDependencies" }

\* The observed window.  It opens ("open") at a disable() at depth 0, notes
\* the clear request ("requested"), the teardowns that emptied something
\* inside and whether a checking reader ran after the request, and closes
\* ("closed") at the enable(), noting the teardowns of that call.  Any other
\* call inside makes it "void".  A specification that does not look at
\* windows starts with the observation "off".
Observe(name, t) ==
    LET w == window
        in == w.phase \in {"open", "requested"}
        more == [w EXCEPT !.emptied = @ + Emptyings(t.log)]
    IN CASE w.phase = "off" -> w
         [] name = "Disable" /\ clearRelationshipsDisableCount = 0 ->
                [NoWindow EXCEPT !.phase = "open"]
         [] name = "ClearRelationships" /\ w.phase = "open" ->
                [more EXCEPT !.phase = "requested"]
         [] name \in Reads /\ in ->
                [more EXCEPT !.checkedAfter = @ \/ (w.phase = "requested"
                                                     /\ name \in CheckingReads)]
         [] name = "Enable" /\ w.phase = "requested" ->
                [w EXCEPT !.phase = "closed", !.atEnable = Teardowns(t.log)]
         [] name = "Enable" /\ w.phase = "void"
                           /\ t.clearRelationshipsDisableCount > 0 ->
                w
         [] in \/ (w.phase = "void" /\ name # "Enable") ->
                [NoWindow EXCEPT !.phase = "void"]
         [] OTHER -> NoWindow

\* What a call hands back: a kext (or NULL), a list of kexts, an error code.
Result(kext, kexts, error) == [kext |-> kext, kexts |-> kexts, error |-> error]

\* The end of a call: the manager is as the handler left it, and the call
\* is remembered with the flags it met, what it handed back and, for a load
\* request, whether it asked for the kernel's table and what the kernel said.
Finished(name, arg, t, result, request) ==
    /\ Commit(t)
    /\ lastOp' = [ name |-> name, arg |-> arg,
                   depth |-> clearRelationshipsDisableCount,
                   pending |-> needsClearRelationships,
                   stale |-> needsCalculateRelationships,
                   result |-> result,
                   request |-> request ]
    /\ window' = Observe(name, t)

Done(name, arg, t, result) == Finished(name, arg, t, result, NoRequest)

\* A call of a handler that returns nothing, a kext, a list of kexts or a
\* KXKextManagerError.
\* The handler runs once; u is the state it leaves.
Do(name, arg, t) ==
    \E u \in {t} : Done(name, arg, u, Result(NULL, << >>, "None"))
DoKext(name, arg, t) ==
    \E u \in {t} : Done(name, arg, u, Result(u.result, << >>, "None"))
DoKexts(name, arg, t) ==
    \E u \in {t} : Done(name, arg, u, Result(NULL, u.result, "None"))
DoError(name, arg, t) ==
    \E u \in {t} : Done(name, arg, u, Result(NULL, << >>, u.result))
DoLoad(name, arg, t, check, do_load, tolerate, env) ==
    \E u \in {t} : Finished(name, arg, u, Result(NULL, << >>, u.result),
                            [ check |-> check, kmod |-> env.kmod,
                              do_load |-> do_load, tolerate |-> tolerate,
                              env |-> env ])

Disable ==
    /\ clearRelationshipsDisableCount < MaxDepth
    /\ Do("Disable", NULL, KXKextManagerDisableClearRelationships(Cur))

Enable ==
    /\ Do("Enable", NULL, KXKextManagerEnableClearRelationships(Cur))

ClearRelationships ==
    /\ Do("ClearRelationships", NULL, KXKextManagerClearRelationships(Cur))

CalculateVersionRelationships ==
    /\ Do("CalculateVersionRelationships", NULL,
       KXKextManagerCalculateVersionRelationships(Cur))

GetKextWithIdentifier ==
    \E id \in Ids :
        /\ DoKext("GetKextWithIdentifier", id, KXKextManagerGetKextWithIdentifier(Cur, id))

GetKextWithIdentifierAndVersion ==
    \E id \in Ids, v \in Versions :
        /\ DoKext("GetKextWithIdentifierAndVersion", id,
           __KXKextManagerGetKextWithIdentifierAndVersionNumber(Cur, id, v))

GetKextCompatibleWithVersion ==
    \E id \in Ids, v \in Versions \cup {NULL} :
        /\ DoKext("GetKextCompatibleWithVersion", id,
           __KXKextManagerGetKextWithIdentifierCompatibleWithVersionNumber(Cur, id, v))

CopyKextsWithIdentifier ==
    \E id \in Ids :
        /\ DoKexts("CopyKextsWithIdentifier", id, KXKextManagerCopyKextsWithIdentifier(Cur, id))

CopyAllKexts ==
    /\ DoKexts("CopyAllKexts", NULL, KXKextManagerCopyAllKexts(Cur))

CopyAllKextPersonalities ==
    /\ DoKexts("CopyAllKextPersonalities", NULL, KXKextManagerCopyAllKextPersonalities(Cur))

GetKextsWithMissingDependencies ==
    /\ DoKexts("GetKextsWithMissingDependencies", NULL,
       KXKextManagerGetKextsWithMissingDependencies(Cur))

ResolveAllKextDependencies ==
    \E ok \in SUBSET Kexts :
        /\ Do("ResolveAllKextDependencies", NULL,
           KXKextManagerResolveAllKextDependencies(Cur, ok))

\* A kext object lives as long as something refers to it; a repository is
\* scanned anew only once nothing holds a kext of its earlier scan.
Referenced(k) ==
    \/ \E i \in Ids : candidateKexts[i] = k
    \/ k \in Range(kextsWithMissingDependencies)
    \/ \E j \in Kexts : priorVersion[j] = k \/ duplicateVersion[j] = k

AddRepositoryDirectory ==
    \E r \in Repos :
        /\ r \notin Range(repositoryList) => \A k \in Range(scan[r]) : ~Referenced(k)
        /\ DoError("AddRepositoryDirectory", r, KXKextManagerAddRepositoryDirectory(Cur, r))

RemoveRepositoryDirectory ==
    \E r \in Repos :
        /\ Do("RemoveRepositoryDirectory", r, KXKextManagerRemoveRepositoryDirectory(Cur, r))

SetSafeBootMode ==
    \E flag \in BOOLEAN :
        /\ Do("SetSafeBootMode", NULL, KXKextManagerSetSafeBootMode(Cur, flag))

SetPerformsFullTests ==
    \E flag \in BOOLEAN :
        /\ Do("SetPerformsFullTests", NULL, KXKextManagerSetPerformsFullTests(Cur, flag))

\* The answers of the collaborators in the specification of the controller:
\* nothing is loaded in the kernel and the target has no dependencies; the
\* kernel query, the resolution of the target, its authentication or the
\* link/load may each fail.
ControllerEnvs(aKext) ==
    { Env(NoModules, "None", << >>, AllAuthentic, TRUE, "skipped", "exited", "None"),
      Env(NoKmodInfo, "None", << >>, AllAuthentic, TRUE, "skipped", "exited", "None"),
      Env(NoModules, "Dependency", << >>, AllAuthentic, TRUE, "skipped", "exited", "None"),
      Env(NoModules, "None", << >>, [AllAuthentic EXCEPT ![aKext] = "Authentication"],
          TRUE, "skipped", "exited", "None"),
      Env(NoModules, "None", << >>, AllAuthentic, TRUE, "skipped", "exited", "LinkLoad") }

\* A caller holds a kext of a repository of the list.
LoadKextUsingOptions ==
    \E aKext \in UNION { Range(repoCandidateKexts[r]) \cup Range(repoBadKexts[r]) :
                         r \in Range(repositoryList) } :
        \E check_loaded_for_dependencies \in BOOLEAN, env \in ControllerEnvs(aKext) :
            /\ DoLoad("LoadKextUsingOptions", aKext,
               KXKextManagerLoadKextUsingOptions(
                   Cur, aKext, check_loaded_for_dependencies, TRUE, env),
               check_loaded_for_dependencies, TRUE, FALSE, env)

\* Kexts 1 and 2 share an identifier, kexts 3 and 4 the next one, and so on;
\* the versions go round 1 .. MaxVersion.
IdOf(k) == (((k - 1) \div 2) % NumIds) + 1
VersionOf(k) == ((k - 1) % MaxVersion) + 1

\* One installation: the first n kexts are on disk, every kext is valid,
\* enabled and eligible during safe boot, and the manager has just been
\* initialized.
Installation(n) ==
    /\ scan = [r \in Repos |-> SelectSeq(ScanOf(r), LAMBDA k : k <= n)]
    /\ kextInfo = [k \in Kexts |->
                      [ bundleIdentifier |-> IdOf(k), version |-> VersionOf(k),
                        compatibleVersion |-> 1, isValid |-> TRUE,
                        isEnabled |-> TRUE, isEligibleDuringSafeBoot |-> TRUE ]]
    /\ safeBoot = FALSE
    /\ performLoadsInTask = TRUE
    /\ InitManager

\* The controller: the clear requests, the disable/enable pairs, the
\* repository list, a checking and a non-checking reader, the builder and
\* the load orchestrator.
Init ==
    /\ Installation(ControllerKexts)
    /\ window = [NoWindow EXCEPT !.phase = "off"]

Next ==
    \/ Disable
    \/ Enable
    \/ ClearRelationships
    \/ CalculateVersionRelationships
    \/ GetKextWithIdentifier
    \/ CopyAllKexts
    \/ AddRepositoryDirectory
    \/ RemoveRepositoryDirectory
    \/ LoadKextUsingOptions

Spec == Init /\ [][Next]_vars

\* The disabled window: the controller's calls and readers only, with the
\* window observed.
InitWindow ==
    /\ Installation(NumKexts)
    /\ window = NoWindow

NextInWindow ==
    \/ Disable
    \/ Enable
    \/ ClearRelationships
    \/ CalculateVersionRelationships
    \/ GetKextWithIdentifier
    \/ CopyAllKexts
    \/ AddRepositoryDirectory

SpecWindow == InitWindow /\ [][NextInWindow]_vars

\* The kernel's module table as a lookup may find it.
KmodTables ==
    { NoKmodInfo, NoModules,
      [ok |-> TRUE, modules |-> << [name |-> 1, version |-> 1] >>] }

GetLoadedOrLatestKext ==
    \E id \in Ids, kmod \in KmodTables :
        /\ DoKext("GetLoadedOrLatestKext", id,
              KXKextManagerGetLoadedOrLatestKextWithIdentifier(Cur, id, kmod))

\* The readers: every accessor and the resolver, over repositories that
\* come and clears that are requested inside and outside disabled windows.
InitReaders ==
    /\ Installation(NumKexts)
    /\ window = [NoWindow EXCEPT !.phase = "off"]

NextReaders ==
    \/ Disable
    \/ Enable
    \/ ClearRelationships
    \/ AddRepositoryDirectory
    \/ GetKextWithIdentifier
    \/ GetKextWithIdentifierAndVersion
    \/ GetKextCompatibleWithVersion
    \/ GetLoadedOrLatestKext
    \/ CopyKextsWithIdentifier
    \/ CopyAllKexts
    \/ CopyAllKextPersonalities
    \/ GetKextsWithMissingDependencies
    \/ ResolveAllKextDependencies

SpecReaders == InitReaders /\ [][NextReaders]_vars

\* The builder: the kexts on disk vary in identifier, version and in the
\* tests of the builder's filter (at most one kext fails one test), the
\* repositories are added in either order, and safe boot is switched.
InitBuild ==
    /\ scan = [r \in Repos |-> ScanOf(r)]
    /\ kextInfo \in [Kexts -> KextRecords]
    /\ \A k \in Kexts : k < NumKexts => kextInfo[k].bundleIdentifier = 1
    /\ Cardinality({ k \in Kexts : ~Sound(kextInfo, k) }) <= 1
    /\ \A k \in Kexts :
          Cardinality({ f \in {"v", "e", "s"} :
              CASE f = "v" -> ~kextInfo[k].isValid
                [] f = "e" -> ~kextInfo[k].isEnabled
                [] f = "s" -> ~kextInfo[k].isEligibleDuringSafeBoot }) <= 1
    /\ safeBoot = FALSE
    /\ performLoadsInTask = TRUE
    /\ InitManager
    /\ window = [NoWindow EXCEPT !.phase = "off"]

NextBuild ==
    \/ AddRepositoryDirectory
    \/ CalculateVersionRelationships
    \/ ClearRelationships
    \/ SetSafeBootMode
    \/ GetKextWithIdentifier
    \/ CopyKextsWithIdentifier

SpecBuild == InitBuild /\ [][NextBuild]_vars

\* The resolver: the three kexts on disk vary in version, the third in
\* identifier too; each call of the resolver meets another verdict of the
\* dependency collaborator.
InitResolve ==
    /\ scan = [r \in Repos |-> ScanOf(r)]
    /\ \E v \in [Kexts -> Versions], i \in Ids :
          kextInfo = [k \in Kexts |->
                        [ bundleIdentifier |-> IF k < NumKexts THEN 1 ELSE i,
                          version |-> v[k], compatibleVersion |-> 1,
                          isValid |-> TRUE, isEnabled |-> TRUE,
                          isEligibleDuringSafeBoot |-> TRUE ]]
    /\ safeBoot = FALSE
    /\ performLoadsInTask = TRUE
    /\ InitManager
    /\ window = [NoWindow EXCEPT !.phase = "off"]

NextResolve ==
    \/ AddRepositoryDirectory
    \/ CalculateVersionRelationships
    \/ ResolveAllKextDependencies
    \/ SetPerformsFullTests
    \/ GetKextsWithMissingDependencies

SpecResolve == InitResolve /\ [][NextResolve]_vars

\* The kernel's answers to one load request: the query fails, nothing is
\* loaded, the target's identifier is loaded in the target's version, or in
\* the version above it.
KernelTables(aKext) ==
    { NoKmodInfo, NoModules,
      [ok |-> TRUE, modules |->
          << [name |-> kextInfo[aKext].bundleIdentifier,
              version |-> kextInfo[aKext].version] >>],
      [ok |-> TRUE, modules |->
          << [name |-> kextInfo[aKext].bundleIdentifier,
              version |-> kextInfo[aKext].version + 1] >>] }

\* The answers of the collaborators in the specification of the load
\* requests: the kernel answers any of the above and all else succeeds, or
\* nothing is loaded and one step fails: the resolution of the target (with
\* either of two errors) or the link/load.
LoadEnvs(aKext) ==
    { Env(kmod, "None", << >>, AllAuthentic, TRUE, "skipped", "exited", "None") :
          kmod \in KernelTables(aKext) }
    \cup { Env(NoModules, resolve, << >>, AllAuthentic, TRUE, "skipped", "exited",
               "None") : resolve \in {"Dependency", "DependencyLoop"} }
    \cup { Env(NoModules, "None", << >>, AllAuthentic, TRUE, "skipped", "exited",
               "LinkLoad") }

LoadKextUsingOptionsWithKernel ==
    \E aKext \in UNION { Range(repoCandidateKexts[r]) \cup Range(repoBadKexts[r]) :
                         r \in Range(repositoryList) } :
        \E check_loaded_for_dependencies \in BOOLEAN, env \in LoadEnvs(aKext) :
            /\ DoLoad("LoadKextUsingOptions", aKext,
               KXKextManagerLoadKextUsingOptions(
                   Cur, aKext, check_loaded_for_dependencies, TRUE, env),
               check_loaded_for_dependencies, TRUE, FALSE, env)

\* The load requests: two kexts of one identifier are on disk, one in each
\* repository; the first may be invalid, disabled or not eligible during
\* safe boot, in any combination; safe boot is switched, and the kernel and
\* the collaborators answer each request as above.
InitLoad ==
    /\ scan = [r \in Repos |-> SelectSeq(ScanOf(r), LAMBDA k : k <= ControllerKexts)]
    /\ \E v, e, b \in BOOLEAN :
          kextInfo = [k \in Kexts |->
                        [ bundleIdentifier |-> IdOf(k), version |-> VersionOf(k),
                          compatibleVersion |-> 1,
                          isValid |-> (k = 1 => v),
                          isEnabled |-> (k = 1 => e),
                          isEligibleDuringSafeBoot |-> (k = 1 => b) ]]
    /\ safeBoot = FALSE
    /\ performLoadsInTask = TRUE
    /\ InitManager
    /\ window = [NoWindow EXCEPT !.phase = "off"]

NextLoad ==
    \/ AddRepositoryDirectory
    \/ SetSafeBootMode
    \/ LoadKextUsingOptionsWithKernel

SpecLoad == InitLoad /\ [][NextLoad]_vars

\* The authentication walk.  One repository holds every kext: the last one
\* is a driver, the others are two versions of a library that the driver's
\* closure names in either order.  The caller prepares the load of the
\* driver; the kernel has nothing loaded or has the library loaded in its
\* first version.
\* The kernel's tables are WalkTables.  Closures is what
\* KXKextCopyAllDependencies gives for the target: the library kexts, in
\* either order.  Verdicts is what KXKextAuthenticate answers for the kexts
\* of a closure: the target passes, each library kext passes or fails the
\* authentication, and the first may instead be found inconsistent with its
\* cache.  EarlyEnvs are the answers that end the preparation before the
\* walk: the kernel's table cannot be read, the kernel has the target
\* loaded, or the resolution of the target fails.
WalkEnvs(aKext) ==
    LET WalkTables ==
            { NoModules,
              [ok |-> TRUE,
               modules |-> << [name |-> IdOf(1), version |-> VersionOf(1)] >>] }
        Closures ==
            { << a, b >> : a, b \in Kexts \ {aKext} } \ { << a, a >> : a \in Kexts }
        Verdicts ==
            { auth \in [Kexts -> {"None", "Authentication", "Cache"}] :
                  /\ auth[aKext] = "None"
                  /\ \A k \in Kexts : auth[k] = "Cache" => k = 1 }
        EarlyEnvs ==
            { Env(NoKmodInfo, "None", << >>, AllAuthentic, TRUE, "skipped", "exited",
                  "None"),
              Env([ok |-> TRUE,
                   modules |-> << [name |-> IdOf(aKext), version |-> VersionOf(aKext)] >>],
                  "None", << >>, AllAuthentic, TRUE, "skipped", "exited", "None"),
              Env(NoModules, "Dependency", << >>, AllAuthentic, TRUE, "skipped", "exited",
                  "None") }
    IN { Env(kmod, "None", dependencies, auth, TRUE, "skipped", "exited", "None") :
             kmod \in WalkTables, dependencies \in Closures, auth \in Verdicts }
       \cup EarlyEnvs

\* _KXKextManagerPrepareKextForLoading called by a caller that may pass a
\* container for the inauthentic kexts.
PrepareKextForLoading ==
    \E aKext \in {NumKexts} \cap ListedKexts(Cur) :
        \E tolerate \in BOOLEAN, env \in WalkEnvs(aKext) :
            /\ DoLoad("PrepareKextForLoading", aKext,
               _KXKextManagerPrepareKextForLoading(Cur, aKext, TRUE, TRUE, env, tolerate),
               TRUE, TRUE, tolerate, env)

\* The caller adds the repository that holds the kexts.
AddTheRepository ==
    /\ DoError("AddRepositoryDirectory", 1, KXKextManagerAddRepositoryDirectory(Cur, 1))

InitWalk ==
    /\ scan = [r \in Repos |-> IF r = 1 THEN [k \in 1..NumKexts |-> k] ELSE << >>]
    /\ kextInfo = [k \in Kexts |->
                      [ bundleIdentifier |-> IdOf(k), version |-> VersionOf(k),
                        compatibleVersion |-> 1, isValid |-> TRUE,
                        isEnabled |-> TRUE, isEligibleDuringSafeBoot |-> TRUE ]]
    /\ safeBoot = FALSE
    /\ performLoadsInTask = TRUE
    /\ InitManager
    /\ window = [NoWindow EXCEPT !.phase = "off"]

NextWalk ==
    \/ AddTheRepository
    \/ SetPerformsFullTests
    \/ Disable
    \/ Enable
    \/ PrepareKextForLoading

SpecWalk == InitWalk /\ [][NextWalk]_vars

\* The execution of a load.  The request passes the gate, the kernel query,
\* the resolution and the walk, and the collaborators of the execution
\* answer: no dependency graph; the load addresses are refused; the load is
\* performed and gives each of its results; or, when the load is forked,
\* fork() and waitpid() give each of their outcomes.
ExecuteEnvs ==
    { Env(NoModules, "None", << >>, AllAuthentic, FALSE, "skipped", "exited", "None") }
    \cup { Env(NoModules, "None", << >>, AllAuthentic, TRUE, addresses, "exited", "None") :
               addresses \in {"invalid", "error"} }
    \cup { Env(NoModules, "None", << >>, AllAuthentic, TRUE, "skipped", "exited", kload) :
               kload \in {"None", "AlreadyLoaded", "LoadedVersionDiffers", "LinkLoad"} }
    \cup { Env(NoModules, "None", << >>, AllAuthentic, TRUE, "skipped", fork, "None") :
               fork \in {"failed", "signaled", "stopped", "other", "waitfailed"} }
    \cup { Env(NoModules, "None", << >>, AllAuthentic, TRUE, "skipped", "waitfailed",
                "LinkLoad") }

SetPerformLoadsInTask ==
    \E flag \in BOOLEAN :
        /\ Do("SetPerformLoadsInTask", NULL, KXKextManagerSetPerformLoadsInTask(Cur, flag))

LoadKextUsingOptionsAndExecute ==
    \E aKext \in UNION { Range(repoCandidateKexts[r]) \cup Range(repoBadKexts[r]) :
                         r \in Range(repositoryList) } :
        \E env \in ExecuteEnvs :
            /\ DoLoad("LoadKextUsingOptions", aKext,
               KXKextManagerLoadKextUsingOptions(Cur, aKext, TRUE, TRUE, env),
               TRUE, TRUE, FALSE, env)

NextExecute ==
    \/ AddRepositoryDirectory
    \/ SetPerformLoadsInTask
    \/ Disable
    \/ Enable
    \/ LoadKextUsingOptionsAndExecute

SpecExecute == Init /\ [][NextExecute]_vars

\* A caller asks for the reconciliation with the kernel's table by itself.
\* The kernel's answers: the query fails, nothing is loaded, the first
\* identifier is loaded in version 1, in version 2, or in both; the table
\* that was read is remembered with the call.
CheckForLoadedKexts ==
    LET Module(v) == [name |-> 1, version |-> v]
        Loaded(modules) == [ok |-> TRUE, modules |-> modules]
        Answers == { NoKmodInfo, NoModules, Loaded(<< Module(1) >>),
                     Loaded(<< Module(2) >>), Loaded(<< Module(1), Module(2) >>) }
    IN \E kmod \in Answers :
           /\ DoLoad("CheckForLoadedKexts", NULL,
                     KXKextManagerCheckForLoadedKexts(Cur, kmod), TRUE, FALSE, FALSE,
                     Env(kmod, "None", << >>, AllAuthentic, TRUE, "skipped", "exited",
                         "None"))

\* The chains with duplicates.  One repository holds every kext, all of one
\* identifier, each in version 1 or 2, so that a head or a prior version has
\* duplicates.  The caller adds the repository, reconciles with the kernel,
\* resolves all dependencies and copies all kexts.
InitChains ==
    /\ scan = [r \in Repos |-> IF r = 1 THEN [k \in 1..NumKexts |-> k] ELSE << >>]
    /\ \E v \in [Kexts -> 1..2] :
          kextInfo = [k \in Kexts |->
                        [ bundleIdentifier |-> 1, version |-> v[k],
                          compatibleVersion |-> 1, isValid |-> TRUE,
                          isEnabled |-> TRUE, isEligibleDuringSafeBoot |-> TRUE ]]
    /\ safeBoot = FALSE
    /\ performLoadsInTask = TRUE
    /\ InitManager
    /\ window = [NoWindow EXCEPT !.phase = "off"]

NextChains ==
    \/ AddTheRepository
    \/ CheckForLoadedKexts
    \/ ResolveAllKextDependencies
    \/ CopyAllKexts

SpecChains == InitChains /\ [][NextChains]_vars

\* A load request that does not ask for the kernel's table: the target has
\* no dependencies, and the load succeeds, or the resolution of the target
\* fails, or its authentication fails (which makes it a bad kext of its
\* repository).
LoadKextWithoutKernelCheck ==
    LET Answers(aKext) ==
            { Env(NoModules, "None", << >>, AllAuthentic, TRUE, "skipped", "exited",
                  "None"),
              Env(NoModules, "Dependency", << >>, AllAuthentic, TRUE, "skipped",
                  "exited", "None"),
              Env(NoModules, "None", << >>,
                  [AllAuthentic EXCEPT ![aKext] = "Authentication"],
                  TRUE, "skipped", "exited", "None") }
    IN \E aKext \in ListedKexts(Cur) :
           \E env \in Answers(aKext) :
               /\ DoLoad("LoadKextUsingOptions", aKext,
                         KXKextManagerLoadKextUsingOptions(Cur, aKext, FALSE, TRUE, env),
                         FALSE, TRUE, FALSE, env)

\* The resolver and the load requests.  One repository holds every kext, as
\* in the specification of the walk; the caller switches the full tests,
\* resolves all dependencies, and asks for loads.
NextFullTests ==
    \/ AddTheRepository
    \/ SetPerformsFullTests
    \/ ResolveAllKextDependencies
    \/ LoadKextWithoutKernelCheck

SpecFullTests == InitWalk /\ [][NextFullTests]_vars

\* The load requests from the gate to the execution.  The installation is
\* that of the specification of the load requests (the first kext may be
\* invalid or disabled); a request may ask for the kernel's table, which
\* answers as there, and the resolution of the target, its authentication
\* or the link/load may fail.
NextRequests ==
    \/ AddRepositoryDirectory
    \/ LoadKextUsingOptionsWithKernel
    \/ LoadKextWithoutKernelCheck

SpecRequests == InitLoad /\ [][NextRequests]_vars

(***************************************************************************)
(* Properties of the relationship invalidation controller.                  *)
(***************************************************************************)
\* What a teardown empties and unlinks.
Structure ==
    << candidateKexts, kextsWithMissingDependencies, priorVersion,
       duplicateVersion, hasAllDependencies >>

HasEvent(l, ev) == \E i \in 1..Len(l) : l[i].ev = ev

\* C1, as the specification words it: a teardown that empties the candidate
\* set or the missing-dependency list only ever runs at disable depth 0.
\* (Refuted: a build, a checking accessor and the load preparation tear the
\* structure down at any depth.)
C1_TeardownOnlyAtDepthZero ==
    \A i \in 1..Len(log) :
        (log[i].ev = "teardown" /\ log[i].flag) => log[i].depth = 0

\* C1, amended: every request made through KXKextManagerClearRelationships
\* (directly, by enable(), by adding or removing a repository, by a
\* disqualification or by a failed load) is followed by the teardown exactly
\* when the depth is 0; at a depth greater than 0 it is deferred, and the
\* direct call then changes nothing but the two flags.
C1_RequestedTeardownOnlyAtDepthZero ==
    [][ /\ \A i \in 1..Len(log') :
              log'[i].ev = "request" =>
                  IF log'[i].depth > 0
                  THEN /\ log'[i].flag
                       /\ i < Len(log') => log'[i + 1].ev # "teardown"
                  ELSE /\ ~log'[i].flag
                       /\ i < Len(log')
                       /\ log'[i + 1].ev = "teardown"
                       /\ log'[i + 1].depth = 0
        /\ (lastOp'.name = "ClearRelationships" /\ clearRelationshipsDisableCount > 0) =>
              /\ needsClearRelationships'
              /\ needsCalculateRelationships'
              /\ UNCHANGED << Structure, repositoryList, repoCandidateKexts,
                              repoBadKexts, clearRelationshipsDisableCount >> ]_vars

\* C1's case: a clear requested at depth > 0 over a built structure.
C1_Witness ==
    /\ lastOp.name = "ClearRelationships"
    /\ lastOp.depth > 0
    /\ ~StructureEmpty(Cur)
    /\ needsClearRelationships

\* C2, as the specification words it: a window disable(), clear request,
\* enable() that started at depth 0 empties nothing before the enable() and
\* performs exactly one teardown at the enable(), whatever was read inside.
\* (Refuted: a checking accessor after the request performs the clear inside
\* the window and leaves none for the enable().)
C2_OneClearAtEnableWhateverReads ==
    window.phase = "closed" => (window.emptied = 0 /\ window.atEnable = 1)

\* C2, amended: when no checking accessor runs between the clear request and
\* the enable(), the window empties nothing and the enable() performs exactly
\* one teardown; when one does, the enable() performs none and at most one
\* teardown inside the window emptied anything.
C2_OneClearAtEnableUnlessCheckedInside ==
    window.phase = "closed" =>
        IF window.checkedAfter
        THEN window.atEnable = 0 /\ window.emptied <= 1
        ELSE window.atEnable = 1 /\ window.emptied = 0

\* C2's case: a closed window over a built structure with a checking read
\* after the clear request.
C2_Witness ==
    /\ window.phase = "closed"
    /\ window.checkedAfter
    /\ window.emptied = 1
    /\ lastOp.name = "Enable"

\* C3: with a clear deferred, an enable() that leaves the depth above 0 does
\* not perform it (structure intact, needsClearRelationships still set, no
\* teardown); the enable() that brings the depth to 0 performs it.
C3_DeferredClearWaitsForLastEnable ==
    [][ (lastOp'.name = "Enable" /\ needsClearRelationships) =>
            IF clearRelationshipsDisableCount > 1
            THEN /\ needsClearRelationships'
                 /\ UNCHANGED Structure
                 /\ ~HasEvent(log', "teardown")
                 /\ clearRelationshipsDisableCount' = clearRelationshipsDisableCount - 1
            ELSE /\ ~needsClearRelationships'
                 /\ StructureEmpty(Cur)'
                 /\ HasEvent(log', "teardown")
                 /\ clearRelationshipsDisableCount' = 0 ]_vars

\* C3's case: the first enable() after two disable() calls and a clear
\* request over a built structure.
C3_Witness ==
    /\ lastOp.name = "Enable"
    /\ lastOp.depth = 2
    /\ lastOp.pending
    /\ clearRelationshipsDisableCount = 1
    /\ ~StructureEmpty(Cur)

\* C4: the disable depth is never negative, and enable() at depth 0 leaves
\* it at 0.
C4_DepthNeverNegative ==
    /\ clearRelationshipsDisableCount >= 0
    /\ (lastOp.name = "Enable" /\ lastOp.depth = 0) => clearRelationshipsDisableCount = 0

\* C4's case: an unbalanced enable().
C4_Witness ==
    /\ lastOp.name = "Enable"
    /\ lastOp.depth = 0

\* C5: the enable() that brings the depth to 0 with a clear deferred leaves
\* the structure torn down and stale and does not rebuild; the candidate set
\* then stays empty until a call that builds.
C5_EnableClearsWithoutRebuild ==
    /\ [] ((lastOp.name = "Enable" /\ lastOp.depth = 1 /\ lastOp.pending) =>
              /\ StructureEmpty(Cur)
              /\ \A k \in ListedKexts(Cur) :
                    priorVersion[k] = NULL /\ duplicateVersion[k] = NULL
              /\ ~needsClearRelationships
              /\ needsCalculateRelationships
              /\ clearRelationshipsDisableCount = 0
              /\ HasEvent(log, "teardown")
              /\ ~HasEvent(log, "build"))
    /\ [][ (StructureEmpty(Cur) /\ needsCalculateRelationships
                /\ ~HasEvent(log', "build")) => StructureEmpty(Cur)' ]_vars

\* C5's case: that enable() over a structure that was built.
C5_Witness ==
    /\ lastOp.name = "Enable"
    /\ lastOp.depth = 1
    /\ lastOp.pending
    /\ \E i \in 1..Len(log) : log[i].ev = "teardown" /\ log[i].flag

(***************************************************************************)
(* Properties of the readers.                                               *)
(***************************************************************************)
\* The operations C6 lists, as far as the readers' specification has them.
ListedReaders == CheckingReads \cup { "CopyAllKexts" }

\* Whether the last call handed kexts back to its caller.
ReturnedKexts == lastOp.result.kext # NULL \/ lastOp.result.kexts # << >>

\* C6, as the specification words it: none of the listed readers returns
\* kexts it read from the candidate set while needsClearRelationships or
\* needsCalculateRelationships was set.  (Refuted by
\* KXKextManagerCopyAllKexts, which has no stale-flag prologue.)
C6_NoReaderReturnsStaleData ==
    (lastOp.name \in ListedReaders /\ ReturnedKexts) =>
        \A i \in 1..Len(log) : log[i].ev = "read" => ~log[i].flag

\* C7, as the specification words it: the resolver called over a stale
\* structure rebuilds first, so that afterwards the structure is not stale
\* and, when a repository of the list holds an eligible kext, not empty.
\* (Refuted: the resolver reads the candidate set as it is.)
C7_ResolveAllRebuildsWhenStale ==
    (lastOp.name = "ResolveAllKextDependencies" /\ lastOp.stale
        /\ ListedKexts(Cur) # {}) =>
        /\ HasEvent(log, "build")
        /\ ~needsCalculateRelationships

(***************************************************************************)
(* Properties of the builder.                                               *)
(***************************************************************************)
\* The four tests of the specification, read off the state.
Eligible(k) ==
    /\ kextInfo[k].isValid
    /\ ~loadFailed[k]
    /\ kextInfo[k].isEnabled
    /\ (safeBoot => kextInfo[k].isEligibleDuringSafeBoot)

\* The kexts in the candidate list of a repository of the list.
RepositoryCandidates ==
    UNION { Range(repoCandidateKexts[r]) : r \in Range(repositoryList) }

RECURSIVE PriorChain(_, _)
\* The priorVersion chain from k, cut after fuel nodes.
PriorChain(k, fuel) ==
    IF k = NULL \/ fuel = 0
    THEN << >>
    ELSE << k >> \o PriorChain(priorVersion[k], fuel - 1)

RECURSIVE DuplicateChain(_, _)
\* The duplicates hanging off k, cut after fuel nodes.
DuplicateChain(k, fuel) ==
    IF duplicateVersion[k] = NULL \/ fuel = 0
    THEN << >>
    ELSE << duplicateVersion[k] >> \o DuplicateChain(duplicateVersion[k], fuel - 1)

RECURSIVE Flatten(_)
Flatten(ss) == IF ss = << >> THEN << >> ELSE Head(ss) \o Flatten(Tail(ss))

\* Everything reachable from the head of an identifier: the chain nodes,
\* each followed by its duplicates.
Reachable(id) ==
    LET chain == PriorChain(candidateKexts[id], NumKexts + 1)
    IN Flatten([i \in 1..Len(chain) |->
                   << chain[i] >> \o DuplicateChain(chain[i], NumKexts + 1)])

Occurrences(q, x) == Cardinality({ i \in 1..Len(q) : q[i] = x })

\* C8, as the specification words it, for the states the flags call up to
\* date: every head passes the four tests and no kext of its identifier in a
\* repository's candidate list that passes them has a higher version.
\* (Refuted: KXKextManagerSetSafeBootMode leaves the built structure as it
\* is and marks nothing stale.)
C8_HeadIsHighestEligible ==
    ~(needsClearRelationships \/ needsCalculateRelationships) =>
        \A id \in Ids :
            candidateKexts[id] # NULL =>
                /\ Eligible(candidateKexts[id])
                /\ \A k \in RepositoryCandidates :
                      (Eligible(k) /\ kextInfo[k].bundleIdentifier = id) =>
                          kextInfo[k].version <= kextInfo[candidateKexts[id]].version

\* C9: after a build the priorVersion chain of every head is strictly
\* descending by version; a duplicate has the version of the one chain node
\* it hangs off, has no prior version of its own, and was met by the builder
\* later than that node.
C9_ChainStrictlyDescending ==
    HasEvent(log, "build") =>
        \A id \in Ids :
            LET chain == PriorChain(candidateKexts[id], NumKexts + 1)
                order == BuildOrder(Cur, 1)
                PositionIn(q, x) == CHOOSE n \in 1..Len(q) : q[n] = x
            IN /\ Len(chain) <= NumKexts
               /\ \A i \in 1..Len(chain) :
                     /\ kextInfo[chain[i]].bundleIdentifier = id
                     /\ i < Len(chain) =>
                           kextInfo[chain[i]].version > kextInfo[chain[i + 1]].version
                     /\ \A d \in Range(DuplicateChain(chain[i], NumKexts + 1)) :
                           /\ kextInfo[d].version = kextInfo[chain[i]].version
                           /\ kextInfo[d].bundleIdentifier = id
                           /\ priorVersion[d] = NULL
                           /\ PositionIn(order, chain[i]) < PositionIn(order, d)

\* C9's case: a build that met two kexts of one identifier and one version
\* and a third of a lower version.
C9_Witness ==
    /\ HasEvent(log, "build")
    /\ \E a, b, c \in Kexts :
          /\ candidateKexts[1] = a
          /\ duplicateVersion[a] = b
          /\ priorVersion[a] = c

\* C10: right after a build every kext of a repository's candidate list that
\* passes the four tests is reachable from the head of its identifier and
\* from no other, exactly once; no other kext is reachable; and
\* needsCalculateRelationships is false.
C10_BuildReachesEligibleExactlyOnce ==
    HasEvent(log, "build") =>
        /\ ~needsCalculateRelationships
        /\ \A k \in Kexts, id \in Ids :
              Occurrences(Reachable(id), k) =
                  IF /\ k \in RepositoryCandidates
                     /\ Eligible(k)
                     /\ kextInfo[k].bundleIdentifier = id
                  THEN 1
                  ELSE 0

\* C10's case: a build in safe boot over a kext that is not eligible during
\* safe boot and two that are, one of them a duplicate.
C10_Witness ==
    /\ HasEvent(log, "build")
    /\ safeBoot
    /\ \E k \in RepositoryCandidates : ~Eligible(k)
    /\ \E id \in Ids : Len(Reachable(id)) >= 2

(***************************************************************************)
(* Properties of the builder called again.                                  *)
(***************************************************************************)
\* C11: a build right after a build, with nothing done in between, leaves
\* the candidate set as the first build left it: the same heads under the
\* same identifiers and the same priorVersion and duplicateVersion link of
\* every kext, so no link of the first build is left over in a new place.
C11_SecondBuildEqualsFirst ==
    [][ (/\ lastOp.name = "CalculateVersionRelationships"
         /\ lastOp'.name = "CalculateVersionRelationships") =>
            /\ candidateKexts' = candidateKexts
            /\ priorVersion' = priorVersion
            /\ duplicateVersion' = duplicateVersion
            /\ \A id \in Ids : Reachable(id)' = Reachable(id)
            /\ ~needsCalculateRelationships' ]_vars

\* C11's case: a second build over a structure the first build gave a prior
\* version and a duplicate.
C11_Witness ==
    /\ lastOp.name = "CalculateVersionRelationships"
    /\ ~lastOp.stale
    /\ ~lastOp.pending
    /\ \E a, b, c \in Kexts :
          /\ candidateKexts[1] = a
          /\ duplicateVersion[a] = b
          /\ priorVersion[a] = c

(***************************************************************************)
(* Properties of the dependency closure resolver.                           *)
(***************************************************************************)
\* The kexts reachable from any head.
Tree == UNION { Range(Reachable(id)) : id \in Ids }

\* C12: whatever builds and calls of the resolver have run, no kext
\* reachable from a head of the candidate set through priorVersion and
\* duplicateVersion links is in the missing-dependency list, which says as
\* well that no kext of the list is reachable from a head.
C12_ReachableNotMissing ==
    Tree \cap Range(kextsWithMissingDependencies) = {}

\* C12's case: the resolver spliced a kext out of the middle of a chain that
\* is still two kexts long.
C12_Witness ==
    /\ lastOp.name = "ResolveAllKextDependencies"
    /\ \E a, b, c \in Kexts :
          /\ candidateKexts[1] = a
          /\ priorVersion[a] = c
          /\ b \in Range(kextsWithMissingDependencies)
          /\ kextInfo[a].version > kextInfo[b].version
          /\ kextInfo[b].version > kextInfo[c].version

\* One version level: the chain node followed by its duplicates.
Level(p) == << p >> \o DuplicateChain(p, NumKexts + 1)

VersionsOf(q) == [i \in 1..Len(q) |-> kextInfo[q[i]].version]

\* C13: a call of the resolver leaves of every chain the version sequence
\* it found, in the same order, less exactly the levels none of whose kexts
\* has all its dependencies; the other identifiers are processed whatever
\* failed before them; every kext that has all its dependencies stays
\* reachable from its head; and every kext the call removed is in the
\* missing-dependency list exactly once.
C13_SpliceKeepsOrder ==
    [][ lastOp'.name = "ResolveAllKextDependencies" =>
            \A id \in Ids :
                LET before == PriorChain(candidateKexts[id], NumKexts + 1)
                    kept == SelectSeq(before,
                                LAMBDA p : \E k \in Range(Level(p)) :
                                               hasAllDependencies'[k])
                IN /\ VersionsOf(PriorChain(candidateKexts[id], NumKexts + 1)')
                        = VersionsOf(kept)
                   /\ \A k \in Range(Reachable(id)) :
                         /\ hasAllDependencies'[k] => k \in Range(Reachable(id)')
                         /\ k \notin Range(Reachable(id)') =>
                                /\ ~hasAllDependencies'[k]
                                /\ Occurrences(kextsWithMissingDependencies', k) = 1 ]_vars

\* C13's case: of a chain of three versions the middle one alone failed.
C13_Witness ==
    /\ lastOp.name = "ResolveAllKextDependencies"
    /\ \E a, b, c \in Kexts :
          /\ candidateKexts[1] = a
          /\ priorVersion[a] = c
          /\ priorVersion[c] = NULL
          /\ priorVersion[b] = c
          /\ kextsWithMissingDependencies = << b >>
          /\ hasAllDependencies[a] /\ hasAllDependencies[c]
          /\ kextInfo[a].version > kextInfo[b].version
          /\ kextInfo[b].version > kextInfo[c].version

\* C14, as the specification words it: after a call of the resolver, for
\* every primary of a version level that lacks dependencies and has a
\* duplicate, the kext before it in the chain (or the candidate set entry,
\* if it was the head) points to that duplicate, and the duplicate's
\* priorVersion link is the primary's.
\* (Refuted: the duplicate is checked next and is removed in turn when it
\* lacks dependencies too; the kext before may have been removed itself;
\* and the level below may be spliced out after the duplicate took over.)
C14_DuplicateTakesPlace ==
    [][ lastOp'.name = "ResolveAllKextDependencies" =>
            \A id \in Ids :
                LET before == PriorChain(candidateKexts[id], NumKexts + 1)
                IN \A i \in 1..Len(before) :
                       (/\ ~hasAllDependencies'[before[i]]
                        /\ duplicateVersion[before[i]] # NULL) =>
                           /\ IF i = 1
                              THEN candidateKexts'[id] = duplicateVersion[before[i]]
                              ELSE priorVersion'[before[i - 1]]
                                       = duplicateVersion[before[i]]
                           /\ priorVersion'[duplicateVersion[before[i]]]
                                  = priorVersion[before[i]] ]_vars

\* C14, amended: when the primary of a version level lacks dependencies and
\* its first duplicate has them, the duplicate is a node of the chain after
\* the call; the candidate set entry points to it if the primary was the
\* head; the kext before it points to it if that kext has its dependencies;
\* and its priorVersion link is the primary's if the primary had no prior
\* version or that prior version has its dependencies.
C14_SurvivingDuplicateTakesPlace ==
    [][ lastOp'.name = "ResolveAllKextDependencies" =>
            \A id \in Ids :
                LET before == PriorChain(candidateKexts[id], NumKexts + 1)
                IN \A i \in 1..Len(before) :
                       (/\ ~hasAllDependencies'[before[i]]
                        /\ duplicateVersion[before[i]] # NULL
                        /\ hasAllDependencies'[duplicateVersion[before[i]]]) =>
                           LET dupKext == duplicateVersion[before[i]]
                               nextKext == priorVersion[before[i]]
                           IN /\ dupKext \in Range(PriorChain(candidateKexts[id],
                                                              NumKexts + 1)')
                              /\ before[i] \notin Range(Reachable(id)')
                              /\ i = 1 => candidateKexts'[id] = dupKext
                              /\ (i > 1 /\ hasAllDependencies'[before[i - 1]]) =>
                                     priorVersion'[before[i - 1]] = dupKext
                              /\ (nextKext = NULL \/ hasAllDependencies'[nextKext]) =>
                                     priorVersion'[dupKext] = nextKext ]_vars

\* C14's case: the head of a chain failed, and its duplicate is the head
\* now, linked to the prior version the failed head is still linked to.
C14_Witness ==
    /\ lastOp.name = "ResolveAllKextDependencies"
    /\ \E p, d, c \in Kexts :
          /\ candidateKexts[1] = d
          /\ duplicateVersion[p] = d
          /\ p \in Range(kextsWithMissingDependencies)
          /\ priorVersion[d] = c
          /\ priorVersion[p] = c
          /\ hasAllDependencies[d]

\* C15, as the specification words it: after a call of the resolver every
\* kext still reachable from a head, primary or duplicate at any place of a
\* duplicate chain, has all its dependencies; every kext that was reachable
\* and lacks dependencies is in the missing-dependency list; and a primary
\* that has its dependencies keeps its priorVersion link when the kext it
\* points to has them too, whatever duplicates were removed.
\* (Refuted: the peek-ahead starts at the duplicate of the first duplicate,
\* so the first duplicate of a primary that passed is never checked.)
C15_AllDuplicatesChecked ==
    [][ lastOp'.name = "ResolveAllKextDependencies" =>
            \A id \in Ids :
                /\ \A k \in Range(Reachable(id)') : hasAllDependencies'[k]
                /\ \A k \in Range(Reachable(id)) :
                      ~hasAllDependencies'[k] =>
                          k \in Range(kextsWithMissingDependencies')
                /\ \A k \in Range(PriorChain(candidateKexts[id], NumKexts + 1)) :
                      (/\ hasAllDependencies'[k]
                       /\ priorVersion[k] # NULL => hasAllDependencies'[priorVersion[k]]) =>
                          priorVersion'[k] = priorVersion[k] ]_vars

\* The first kext of a sequence that has all its dependencies according to
\* has, or NULL.
FirstWithDependencies(q, has) ==
    IF \E i \in 1..Len(q) : has[q[i]]
    THEN q[CHOOSE i \in 1..Len(q) : has[q[i]] /\ \A j \in 1..(i - 1) : ~has[q[j]]]
    ELSE NULL

\* C16: when the head of an identifier lacks dependencies, has no duplicate
\* and has a prior version, a call of the resolver puts the head in the
\* missing-dependency list and maps the identifier to the next lower version
\* that survives: the first kext with all its dependencies of the first
\* level below the head that has one (the identifier is dropped if no level
\* has one).
C16_HeadRemappedToNextSurvivor ==
    [][ lastOp'.name = "ResolveAllKextDependencies" =>
            \A id \in Ids :
                LET headKext == candidateKexts[id]
                    before == PriorChain(headKext, NumKexts + 1)
                IN (/\ headKext # NULL
                    /\ ~hasAllDependencies'[headKext]
                    /\ duplicateVersion[headKext] = NULL
                    /\ priorVersion[headKext] # NULL) =>
                       /\ Occurrences(kextsWithMissingDependencies', headKext) = 1
                       /\ candidateKexts'[id] # headKext
                       /\ candidateKexts'[id] =
                              FirstWithDependencies(
                                  Flatten([i \in 1..(Len(before) - 1) |->
                                              Level(before[i + 1])]),
                                  hasAllDependencies') ]_vars

\* C16's case: two versions of one identifier, the higher one failed alone:
\* the list holds just it and the identifier maps to the lower one.
C16_Witness ==
    /\ lastOp.name = "ResolveAllKextDependencies"
    /\ \E h, c \in Kexts :
          /\ kextsWithMissingDependencies = << h >>
          /\ duplicateVersion[h] = NULL
          /\ priorVersion[h] = c
          /\ candidateKexts[kextInfo[h].bundleIdentifier] = c
          /\ hasAllDependencies[c]
          /\ kextInfo[h].version > kextInfo[c].version

\* C17: when no kext reachable from the head of an identifier, whatever its
\* version and whether primary or duplicate, has all its dependencies, a
\* call of the resolver removes the identifier from the candidate set and
\* every one of those kexts is in the missing-dependency list (once); and
\* an identifier the call leaves in the set maps to a kext that has its
\* dependencies and is not in the list.
C17_ExhaustedIdentifierRemoved ==
    [][ lastOp'.name = "ResolveAllKextDependencies" =>
            \A id \in Ids :
                /\ (/\ candidateKexts[id] # NULL
                    /\ \A k \in Range(Reachable(id)) : ~hasAllDependencies'[k]) =>
                       /\ candidateKexts'[id] = NULL
                       /\ \A k \in Range(Reachable(id)) :
                             Occurrences(kextsWithMissingDependencies', k) = 1
                /\ candidateKexts'[id] # NULL =>
                       /\ hasAllDependencies'[candidateKexts'[id]]
                       /\ candidateKexts'[id] \notin Range(kextsWithMissingDependencies')
                /\ candidateKexts[id] = NULL => candidateKexts'[id] = NULL ]_vars

\* C17's case: an identifier with two versions, the higher one with a
\* duplicate, all three failing: the identifier is gone and the list holds
\* the three.
C17_Witness ==
    /\ lastOp.name = "ResolveAllKextDependencies"
    /\ candidateKexts[1] = NULL
    /\ Len(kextsWithMissingDependencies) = 3
    /\ \E a, b, c \in Kexts :
          /\ kextsWithMissingDependencies = << a, b, c >>
          /\ duplicateVersion[a] = b
          /\ priorVersion[b] = c
          /\ kextInfo[c].bundleIdentifier = 1

(***************************************************************************)
(* Properties of the load orchestrator.                                     *)
(***************************************************************************)
\* The target of the load request passes the eligibility gate.
PassesGate(k) ==
    /\ kextInfo[k].isValid
    /\ safeBoot => kextInfo[k].isEligibleDuringSafeBoot
    /\ kextInfo[k].isEnabled

\* The kernel's table lists the kext's identifier in the kext's version.
ReportedLoaded(kmod, k) ==
    /\ kmod.ok
    /\ \E i \in 1..Len(kmod.modules) :
          /\ kmod.modules[i].name = kextInfo[k].bundleIdentifier
          /\ kmod.modules[i].version = kextInfo[k].version

\* C18, as the specification words it: a load request with
\* check_loaded_for_dependencies and do_load for a target that passes the
\* gate and that the kernel's table lists in its own version ends with
\* AlreadyLoaded, with the dependency state (hasAllDependencies of every
\* kext, the missing-dependency list) as it was, and with no resolution and
\* no authentication.
\* (Refuted: KXKextManagerCheckForLoadedKexts marks only the kexts of the
\* candidate chains, so a target that an earlier failed load took out of the
\* candidate set is not marked loaded and goes on to the resolution and the
\* execution.)
C18_LoadedTargetRejectedFirst ==
    [][ (/\ lastOp'.name = "LoadKextUsingOptions"
         /\ lastOp'.request.check
         /\ PassesGate(lastOp'.arg)
         /\ ReportedLoaded(lastOp'.request.kmod, lastOp'.arg)) =>
            /\ lastOp'.result.error = "AlreadyLoaded"
            /\ hasAllDependencies' = hasAllDependencies
            /\ kextsWithMissingDependencies' = kextsWithMissingDependencies
            /\ ~HasEvent(log', "resolve")
            /\ ~HasEvent(log', "authenticate") ]_vars

\* C19: the eligibility gate answers a load request with the validation
\* error when the target is not valid, else with the boot-level error when
\* safe boot is on and the target is not eligible during safe boot, else with
\* the disabled error when the target is not enabled.  A rejected request
\* has done nothing: no rebuild, no query of the kernel's table, no
\* resolution, no authentication, no execution, and the manager is as it
\* was.  A target that passes the three tests gets none of the three errors
\* and the preparation goes on to the query of the kernel's table, or to
\* the resolution when the query is not asked for.
C19_GateOrder ==
    [][ lastOp'.name = "LoadKextUsingOptions" =>
          LET k == lastOp'.arg
              gate == IF ~kextInfo[k].isValid THEN "Validation"
                      ELSE IF safeBoot /\ ~kextInfo[k].isEligibleDuringSafeBoot
                      THEN "BootLevel"
                      ELSE IF ~kextInfo[k].isEnabled THEN "Disabled"
                      ELSE "None"
          IN /\ gate # "None" =>
                   /\ lastOp'.result.error = gate
                   /\ log' = << >>
                   /\ UNCHANGED << candidateKexts, priorVersion, duplicateVersion,
                                   hasAllDependencies, isLoaded,
                                   otherVersionIsLoaded, isAuthentic, loadFailed,
                                   kextsWithMissingDependencies,
                                   needsClearRelationships,
                                   needsCalculateRelationships >>
             /\ gate = "None" =>
                   /\ lastOp'.result.error \notin {"Validation", "BootLevel", "Disabled"}
                   /\ lastOp'.request.check => HasEvent(log', "kmod_get_info")
                   /\ ~lastOp'.request.check => HasEvent(log', "resolve") ]_vars

\* C19's case: with safe boot on, a request with the check of the loaded
\* kexts for a valid target that is neither eligible during safe boot nor
\* enabled ends with the boot-level error.
C19_Witness ==
    /\ lastOp.name = "LoadKextUsingOptions"
    /\ lastOp.request.check
    /\ lastOp.result.error = "BootLevel"
    /\ safeBoot
    /\ kextInfo[lastOp.arg].isValid
    /\ ~kextInfo[lastOp.arg].isEligibleDuringSafeBoot
    /\ ~kextInfo[lastOp.arg].isEnabled

\* C20: a load request with check_loaded_for_dependencies whose target passes
\* the gate and for which kmod_get_info fails ends with an error, and after
\* the failed query there is no resolution, no authentication and no
\* execution.
C20_QueryFailureRejects ==
    [][ (/\ lastOp'.name = "LoadKextUsingOptions"
         /\ lastOp'.request.check
         /\ ~lastOp'.request.kmod.ok
         /\ PassesGate(lastOp'.arg)) =>
            /\ lastOp'.result.error = "Unspecified"
            /\ HasEvent(log', "kmod_get_info")
            /\ ~HasEvent(log', "resolve")
            /\ ~HasEvent(log', "authenticate")
            /\ ~HasEvent(log', "execute") ]_vars

\* C20's case: the query failed for a request with the check, and the target
\* is a candidate whose identifier and version the kernel would have been
\* asked about.
C20_Witness ==
    /\ lastOp.name = "LoadKextUsingOptions"
    /\ lastOp.request.check
    /\ ~lastOp.request.kmod.ok
    /\ PassesGate(lastOp.arg)
    /\ lastOp.arg \in Tree
    /\ lastOp.result.error = "Unspecified"

C22_ResolveFailureDoesNotDisqualify ==
    [][ (/\ lastOp'.name = "LoadKextUsingOptions"
         /\ lastOp'.request.env.resolve # "None"
         /\ HasEvent(log', "resolve")) =>
          LET k == lastOp'.arg
          IN /\ lastOp'.result.error = lastOp'.request.env.resolve
             /\ kextsWithMissingDependencies' = << k >>
             /\ ~hasAllDependencies'[k]
             /\ loadFailed' = loadFailed
             /\ repoCandidateKexts' = repoCandidateKexts
             /\ repoBadKexts' = repoBadKexts
             /\ ~HasEvent(log', "request")
             /\ ~HasEvent(log', "disqualify")
             /\ ~HasEvent(log', "authenticate")
             /\ ~HasEvent(log', "execute")
             /\ (lastOp'.arg \in RepositoryCandidates /\ Eligible(lastOp'.arg)) =>
                    (lastOp.arg \in RepositoryCandidates /\ Eligible(lastOp.arg))' ]_vars

\* C22's case: the resolution of a target of the candidate set failed with
\* the dependency-loop error; the target is in the missing-dependency list,
\* still a candidate of its repository, and the builder admits it.
C22_Witness ==
    /\ lastOp.name = "LoadKextUsingOptions"
    /\ lastOp.request.env.resolve = "DependencyLoop"
    /\ lastOp.result.error = "DependencyLoop"
    /\ kextsWithMissingDependencies = << lastOp.arg >>
    /\ lastOp.arg \in Tree
    /\ ~loadFailed[lastOp.arg]
    /\ lastOp.arg \in RepositoryCandidates
    /\ Eligible(lastOp.arg)

(***************************************************************************)
(* Properties of the authentication walk.                                   *)
(***************************************************************************)
\* The positions of the log at which the walk did something to a kext of
\* the closure.
WalkSteps(l) ==
    { i \in 1..Len(l) :
          l[i].ev \in {"conflict", "authenticate", "inauthentic", "disqualify"} }

\* C23: in a call of the load preparation entered at disable depth d, every
\* step of the walk runs at depth d + 1; a clear requested inside the walk
\* is deferred; from the first step of the walk to its last there is no
\* teardown and no build; the depth on return is d whatever path the
\* preparation took; and when a kext was disqualified in the walk the
\* deferred clear fires after the walk exactly if d is 0, and otherwise
\* stays pending.
C23_WalkRunsDisabled ==
    [][ lastOp'.name = "PrepareKextForLoading" =>
          LET d == clearRelationshipsDisableCount
              steps == WalkSteps(log')
              After(i) == \A j \in steps : j < i
          IN /\ clearRelationshipsDisableCount' = d
             /\ \A i \in steps : log'[i].depth = d + 1
             /\ \A i \in 1..Len(log') :
                    /\ (log'[i].ev = "request" /\ ~After(i)) =>
                           log'[i].flag /\ log'[i].depth = d + 1
                    /\ (log'[i].ev \in {"teardown", "build"} /\ ~After(i)) =>
                           \A j \in steps : i < j
                    /\ (log'[i].ev = "build" /\ steps # {}) => ~After(i)
                    /\ (log'[i].ev = "teardown" /\ steps # {} /\ After(i)) =>
                           d = 0 /\ log'[i].depth = 0
             /\ HasEvent(log', "disqualify") =>
                    IF d = 0
                    THEN /\ \E i \in 1..Len(log') :
                               log'[i].ev = "teardown" /\ After(i)
                         /\ ~needsClearRelationships'
                         /\ needsCalculateRelationships'
                         /\ \A id \in Ids : candidateKexts'[id] = NULL
                    ELSE /\ needsClearRelationships'
                         /\ needsCalculateRelationships'
                         /\ \A i \in 1..Len(log') :
                               log'[i].ev = "teardown" => ~After(i)
                         /\ lastOp'.arg \in Tree' ]_vars

\* C23's case: in full-tests mode, entered at depth 0, the walk disqualified
\* a kext and then authenticated another, and the clear came after the walk.
C23_Witness ==
    /\ lastOp.name = "PrepareKextForLoading"
    /\ lastOp.depth = 0
    /\ clearRelationshipsDisableCount = 0
    /\ \E i, j, k \in 1..Len(log) :
          /\ i < j /\ j < k
          /\ log[i].ev = "disqualify" /\ log[i].depth = 1
          /\ log[j].ev = "authenticate" /\ log[j].depth = 1
          /\ log[k].ev = "teardown" /\ log[k].depth = 0 /\ log[k].flag
    /\ needsCalculateRelationships

\* The closure the walk of the last call went over: what
\* KXKextCopyAllDependencies gave, then the target.
Closure == Append(lastOp.request.env.dependencies, lastOp.arg)

\* The last call was a load preparation that reached the walk.
Walked ==
    /\ lastOp.name = "PrepareKextForLoading"
    /\ lastOp.request.env.resolve = "None"
    /\ HasEvent(log, "resolve")

\* The kexts the walk of the last call handed to KXKextAuthenticate.
Authenticated == { log[i].k : i \in { j \in 1..Len(log) : log[j].ev = "authenticate" } }

\* C24, as the specification words it: outside full-tests mode, when the
\* walk comes to the first kext of the closure of which another version is
\* loaded, it ends there with DependencyLoadedVersionDiffers, and neither
\* that kext nor a later one of the closure is authenticated; in full-tests
\* mode every kext of the closure that is not yet authentic is
\* authenticated.
\* (Refuted: a failure recorded earlier in the walk, one that a container
\* took or one that is not an authentication failure, makes the result
\* Unspecified.)
C24_FirstConflictEndsWalk ==
    [][ Walked' =>
          LET closure == Closure'
              auth == lastOp'.request.env.auth
              tolerate == lastOp'.request.tolerate
              conflicts == { i \in 1..Len(closure) : otherVersionIsLoaded'[closure[i]] }
              c == CHOOSE i \in conflicts : \A j \in conflicts : i <= j
              \* No kext before position c fails the authentication without
              \* a container to take it.
              NoStopBefore ==
                  \A j \in 1..(c - 1) :
                      \/ tolerate
                      \/ isAuthentic[closure[j]]
                      \/ auth[closure[j]] # "Authentication"
          IN /\ (/\ ~performsFullTests
                 /\ conflicts # {}
                 /\ NoStopBefore) =>
                    /\ lastOp'.result.error = "DependencyLoadedVersionDiffers"
                    /\ \A j \in c..Len(closure) : closure[j] \notin Authenticated'
             /\ performsFullTests =>
                    \A j \in 1..Len(closure) :
                        ~isAuthentic[closure[j]] => closure[j] \in Authenticated' ]_vars

\* C24, amended: outside full-tests mode, when the walk comes to the first
\* kext of the closure of which another version is loaded, it ends there:
\* the conflict is the last thing the walk does, neither that kext nor a
\* later one is authenticated, and the result is
\* DependencyLoadedVersionDiffers when no failure was recorded before it and
\* Unspecified otherwise.  In full-tests mode every kext of the closure that
\* is not yet authentic is authenticated.
C24_FirstConflictEndsWalkFolded ==
    [][ Walked' =>
          LET closure == Closure'
              auth == lastOp'.request.env.auth
              tolerate == lastOp'.request.tolerate
              conflicts == { i \in 1..Len(closure) : otherVersionIsLoaded'[closure[i]] }
              c == CHOOSE i \in conflicts : \A j \in conflicts : i <= j
              \* No kext before position c fails the authentication without
              \* a container to take it.
              NoStopBefore ==
                  \A j \in 1..(c - 1) :
                      \/ tolerate
                      \/ isAuthentic[closure[j]]
                      \/ auth[closure[j]] # "Authentication"
          IN /\ (/\ ~performsFullTests
                 /\ conflicts # {}
                 /\ NoStopBefore) =>
                    /\ lastOp'.result.error =
                           IF \A j \in 1..(c - 1) :
                                  isAuthentic[closure[j]] \/ auth[closure[j]] = "None"
                           THEN "DependencyLoadedVersionDiffers"
                           ELSE "Unspecified"
                    /\ \A j \in c..Len(closure) : closure[j] \notin Authenticated'
                    /\ \E i \in WalkSteps(log') :
                           /\ log'[i].ev = "conflict"
                           /\ log'[i].k = closure[c]
                           /\ \A j \in WalkSteps(log') : j <= i
             /\ performsFullTests =>
                    \A j \in 1..Len(closure) :
                        ~isAuthentic[closure[j]] => closure[j] \in Authenticated' ]_vars

\* C24's case: outside full-tests mode the walk authenticated the first kext
\* of the closure, met the conflict at the second and ended with
\* DependencyLoadedVersionDiffers, the target not authenticated.
C24_Witness ==
    /\ Walked
    /\ ~performsFullTests
    /\ lastOp.result.error = "DependencyLoadedVersionDiffers"
    /\ ~otherVersionIsLoaded[Closure[1]]
    /\ otherVersionIsLoaded[Closure[2]]
    /\ ~otherVersionIsLoaded[Closure[3]]
    /\ Closure[1] \in Authenticated
    /\ Closure[2] \notin Authenticated
    /\ Closure[3] \notin Authenticated
    /\ ~isAuthentic[Closure[3]]

\* The walk comes to the test of authenticity of position i of the closure:
\* always in full-tests mode (full), and otherwise when i has no other
\* version loaded (flagged) and the walk stopped at no position j before it,
\* at a kext with another version loaded or at one that fails the
\* authentication, was not authentic (was) and has no container to take it.
ComesTo(closure, auth, was, flagged, tolerate, full, i) ==
    LET StopsAt(j) ==
            \/ flagged[closure[j]]
            \/ ~tolerate /\ ~was[closure[j]] /\ auth[closure[j]] = "Authentication"
    IN \/ full
       \/ /\ \A j \in 1..(i - 1) : ~StopsAt(j)
          /\ ~flagged[closure[i]]

C27_FullTestsAggregates ==
    [][ (Walked' /\ performsFullTests) =>
          LET closure == Closure'
              auth == lastOp'.request.env.auth
              flagged == otherVersionIsLoaded'
              \* The kinds of failure the walk records: the version conflict
              \* if a kext has another version loaded, and what
              \* KXKextAuthenticate answers for the kexts not yet authentic.
              kinds ==
                  (IF \E i \in 1..Len(closure) : flagged[closure[i]]
                   THEN {"DependencyLoadedVersionDiffers"}
                   ELSE {})
                  \cup { auth[closure[i]] :
                            i \in { j \in 1..Len(closure) :
                                       /\ ~isAuthentic[closure[j]]
                                       /\ auth[closure[j]] # "None" } }
              error == lastOp'.result.error
          IN /\ \A i \in 1..Len(closure) :
                    ~isAuthentic[closure[i]] <=> closure[i] \in Authenticated'
             /\ kinds = {} <=> error = "None"
             /\ Cardinality(kinds) = 1 => error \in kinds
             /\ Cardinality(kinds) > 1 <=> error = "Unspecified" ]_vars

\* C27's case: in full-tests mode the first kext of the closure failed the
\* authentication, a later one has another version loaded, the target was
\* still authenticated, and the result is Unspecified.
C27_Witness ==
    /\ Walked
    /\ performsFullTests
    /\ Closure[1] \in Authenticated
    /\ lastOp.request.env.auth[Closure[1]] = "Authentication"
    /\ otherVersionIsLoaded[Closure[2]]
    /\ Closure[3] \in Authenticated
    /\ lastOp.result.error = "Unspecified"

(***************************************************************************)
(* Properties of the execution of a load.                                   *)
(***************************************************************************)
\* The last call was a load request that came to its execution.
Executed == lastOp.name = "LoadKextUsingOptions" /\ HasEvent(log, "execute")

\* What the call noted after it came to its execution.
SinceExecute(l) ==
    LET at == CHOOSE i \in 1..Len(l) : l[i].ev = "execute"
    IN SubSeq(l, at + 1, Len(l))

\* C28: when the execution of a load ends with a result other than None and
\* AlreadyLoaded, the target is flagged loadFailed and the clear of the
\* relationships is requested: at depth 0 the structure is torn down in the
\* call, at a greater depth the request is noted as deferred and
\* needsClearRelationships is set.  When it ends with None or AlreadyLoaded
\* the flag is as it was and no clear is requested.
C28_ExecutionFailureFlagsAndClears ==
    [][ Executed' =>
          LET aKext == lastOp'.arg
              error == lastOp'.result.error
              since == SinceExecute(log')
              depth == clearRelationshipsDisableCount
              Requests == { i \in 1..Len(since) : since[i].ev = "request" }
          IN /\ clearRelationshipsDisableCount' = depth
             /\ IF error \notin {"None", "AlreadyLoaded"}
                THEN /\ loadFailed'[aKext]
                     /\ Requests # {}
                     /\ \A i \in Requests : since[i].flag <=> depth > 0
                     /\ depth = 0 => /\ HasEvent(since, "teardown")
                                     /\ ~needsClearRelationships'
                                     /\ \A id \in Ids : candidateKexts'[id] = NULL
                     /\ depth > 0 => /\ ~HasEvent(since, "teardown")
                                     /\ needsClearRelationships'
                                     /\ needsCalculateRelationships'
                ELSE /\ loadFailed' = loadFailed
                     /\ Requests = {}
                     /\ ~HasEvent(since, "teardown") ]_vars

\* C28's case: at a depth above 0 the link/load of a request failed; the
\* target is flagged and the clear is deferred.
C28_Witness ==
    /\ Executed
    /\ lastOp.result.error = "LinkLoad"
    /\ clearRelationshipsDisableCount > 0
    /\ loadFailed[lastOp.arg]
    /\ needsClearRelationships
    /\ \E i \in 1..Len(log) : log[i].ev = "request" /\ log[i].flag

\* C30: when the load is forked (performLoadsInTask is false) and waitpid()
\* reports the child's status, the result is what the child exited with when
\* it exited, and ChildTask when it was ended by a signal, has stopped, or
\* the status is none of these; with ChildTask the target is flagged
\* loadFailed and the clear of the relationships is requested.
C30_ChildStatusMapped ==
    [][ (Executed' /\ ~performLoadsInTask) =>
          LET env == lastOp'.request.env
              error == lastOp'.result.error
              reached == env.dgraph /\ env.addresses = "skipped"
          IN /\ (reached /\ env.fork = "exited") => error = env.kload
             /\ (reached /\ env.fork \in {"signaled", "stopped", "other"}) =>
                    /\ error = "ChildTask"
                    /\ loadFailed'[lastOp'.arg]
                    /\ HasEvent(SinceExecute(log'), "request")
             /\ error = "ChildTask" =>
                    (reached /\ env.fork \in {"signaled", "stopped", "other"}) ]_vars

\* C30's case: a forked load whose child was ended by a signal gave
\* ChildTask and the target is flagged.
C30_Witness ==
    /\ Executed
    /\ ~performLoadsInTask
    /\ lastOp.request.env.fork = "signaled"
    /\ lastOp.result.error = "ChildTask"
    /\ loadFailed[lastOp.arg]

C31_NextReadSeesNewRepositoryList ==
    [][ (/\ lastOp.name \in {"AddRepositoryDirectory", "RemoveRepositoryDirectory"}
         /\ HasEvent(log, "request")
         /\ lastOp'.name \in {"GetKextWithIdentifier", "CopyAllKexts"}) =>
          LET returned == Range(lastOp'.result.kexts)
                          \cup ({lastOp'.result.kext} \ {NULL})
              new == repositoryList'
              candidates == repoCandidateKexts'
              bad == repoBadKexts'
              listed == UNION { Range(candidates[r]) \cup Range(bad[r]) :
                                r \in Range(new) }
          IN /\ \A i \in 1..Len(log') : log'[i].ev = "read" => ~log'[i].flag
             /\ returned \subseteq listed ]_vars

\* C39: in every reachable state needsClearRelationships is set only while
\* the disable depth is above 0, and with it needsCalculateRelationships.
C39_PendingClearOnlyWhileDisabled ==
    needsClearRelationships =>
        /\ clearRelationshipsDisableCount > 0
        /\ needsCalculateRelationships

\* C39's case: the enable() that brought the depth back to 0 met a pending
\* clear, and the flag is reset.
C39_Witness ==
    /\ lastOp.name = "Enable"
    /\ lastOp.depth = 1
    /\ lastOp.pending
    /\ clearRelationshipsDisableCount = 0
    /\ ~needsClearRelationships
    /\ HasEvent(log, "teardown")

\* C40, as the specification words it: in every reachable state every kext
\* reachable from a head of the candidate set or in the missing-dependency
\* list is a kext of a repository of the list.
\* (Refuted: a repository removed at a disable depth above 0 leaves its
\* kexts in the candidate set until the deferred clear.)
C40_StructureWithinRepositoryList ==
    (Tree \cup Range(kextsWithMissingDependencies)) \subseteq ListedKexts(Cur)

(***************************************************************************)
(* Properties of the chains with duplicates.                                *)
(***************************************************************************)
\* C32: after a successful KXKextManagerCheckForLoadedKexts every kext of
\* every chain, primary or duplicate, has isLoaded exactly when the kernel's
\* table names its identifier with its version, and otherVersionIsLoaded
\* exactly when the table names its identifier with another version; a flag
\* of an earlier call that the table does not support is gone.
C32_FlagsMirrorKernelTable ==
    (lastOp.name = "CheckForLoadedKexts" /\ lastOp.result.error = "None") =>
        LET modules == lastOp.request.kmod.modules
            Names(k, same) ==
                \E i \in 1..Len(modules) :
                    /\ modules[i].name = kextInfo[k].bundleIdentifier
                    /\ (modules[i].version = kextInfo[k].version) = same
        IN \A k \in Tree :
               /\ isLoaded[k] = Names(k, TRUE)
               /\ otherVersionIsLoaded[k] = Names(k, FALSE)

\* A call that marks a duplicate as loaded and another kext of the chain as
\* loaded in another version.
C32_Witness ==
    /\ lastOp.name = "CheckForLoadedKexts" /\ lastOp.result.error = "None"
    /\ Len(lastOp.request.kmod.modules) = 1
    /\ \E k \in Tree :
          /\ \E j \in Tree : duplicateVersion[j] = k
          /\ isLoaded[k] /\ ~otherVersionIsLoaded[k]
    /\ \E k \in Tree : otherVersionIsLoaded[k] /\ ~isLoaded[k]

\* C34, as the specification words it: KXKextManagerCopyAllKexts returns
\* every kext of every chain, the duplicates of the head included, each
\* exactly once.  (Refuted: the duplicates of a head are not copied.)
C34_CopyAllReturnsEveryChainKext ==
    lastOp.name = "CopyAllKexts" =>
        LET kexts == lastOp.result.kexts
        IN \A k \in Tree : Cardinality({ i \in 1..Len(kexts) : kexts[i] = k }) = 1

C38_FreshResolutionEmptiesMissingList ==
    [][ (lastOp'.name = "LoadKextUsingOptions" /\ HasEvent(log', "resolve")) =>
          LET aKext == lastOp'.arg
              l == log'
              failed == \E i \in 1..Len(l) : l[i].ev = "resolve" /\ ~l[i].flag
              built == ~needsCalculateRelationships /\ ~needsClearRelationships
          IN /\ kextsWithMissingDependencies' = IF failed THEN << aKext >> ELSE << >>
             /\ failed <=> lastOp'.result.error = "Dependency"
             /\ failed => ~HasEvent(l, "request")
             /\ (built /\ ~HasEvent(l, "request")) =>
                    /\ candidateKexts' = candidateKexts
                    /\ priorVersion' = priorVersion
                    /\ duplicateVersion' = duplicateVersion ]_vars

\* A load request has failed in the resolution of its target over a built
\* structure from which the resolver had taken another kext: the list names
\* the target alone, and the other kext is neither in a chain nor in the
\* list.
C38_Witness ==
    /\ lastOp.name = "LoadKextUsingOptions"
    /\ lastOp.result.error = "Dependency"
    /\ ~lastOp.stale
    /\ kextsWithMissingDependencies = << lastOp.arg >>
    /\ lastOp.arg \in Tree
    /\ \E k \in ListedKexts(Cur) \ {lastOp.arg} :
          /\ k \notin Tree
          /\ \A r \in Repos : k \notin Range(repoBadKexts[r])

(***************************************************************************)
(* Properties of the builder's tie-break.                                   *)
(***************************************************************************)
\* C35: after a build, of the admitted kexts of one identifier and one
\* version the one the builder met first (repository-list order, then the
\* order of the repository's candidates) is the chain node, and the others
\* are its duplicates in the order they were met; so a kext that equals the
\* head in version never takes the head's place.
C35_FirstMetIsChainNode ==
    HasEvent(log, "build") =>
        LET met == SelectSeq(BuildOrder(Cur, 1), LAMBDA k : Eligible(k))
            Alike(k) ==
                SelectSeq(met, LAMBDA j :
                    /\ kextInfo[j].bundleIdentifier = kextInfo[k].bundleIdentifier
                    /\ kextInfo[j].version = kextInfo[k].version)
            nodes == UNION { Range(PriorChain(candidateKexts[id], NumKexts + 1)) :
                             id \in Ids }
        IN /\ \A k \in nodes :
                 << k >> \o DuplicateChain(k, NumKexts + 1) = Alike(k)
           /\ \A k \in Range(met) : \E n \in nodes : Head(Alike(k)) = n

\* A build over two repositories has met a tie across them: the head is a
\* kext of the first repository of the list and its duplicate a kext of the
\* second.
C35_Witness ==
    /\ HasEvent(log, "build")
    /\ Len(repositoryList) = 2
    /\ \E id \in Ids :
          /\ candidateKexts[id] # NULL
          /\ candidateKexts[id] \in Range(repoCandidateKexts[repositoryList[1]])
          /\ duplicateVersion[candidateKexts[id]] # NULL
          /\ duplicateVersion[candidateKexts[id]]
                 \in Range(repoCandidateKexts[repositoryList[2]])

(***************************************************************************)
(* Properties of the load requests and the builds after them.               *)
(***************************************************************************)
\* C36: a kext whose load has failed keeps its loadFailed flag, and while it
\* does every call that builds leaves it outside every chain; after a build
\* by KXKextManagerCalculateVersionRelationships or by an accessor the head
\* of each identifier is the highest version among the listed candidates
\* that pass the builder's tests, so a lower version takes the place of a
\* head whose load failed.
C36_FailedLoadExcludedFromBuilds ==
    [][ HasEvent(log', "build") =>
          LET heads == candidateKexts'
              tree == Tree'
              failed == { k \in Kexts : loadFailed[k] /\ loadFailed'[k] }
              Admitted(id) ==
                  { j \in RepositoryCandidates' :
                        Eligible(j)' /\ kextInfo[j].bundleIdentifier = id }
          IN /\ failed \cap tree = {}
             /\ lastOp'.name \in {"CalculateVersionRelationships",
                                   "GetKextWithIdentifier"} =>
                    \A id \in Ids :
                        IF Admitted(id) = {}
                        THEN heads[id] = NULL
                        ELSE /\ heads[id] \in Admitted(id)
                             /\ \A j \in Admitted(id) :
                                    kextInfo[j].version <= kextInfo[heads[id]].version
        ]_vars

\* A build after the load of the newer of two versions has failed: the
\* failed kext is still a candidate of a listed repository and the older
\* version is the head.
C36_Witness ==
    /\ lastOp.name \in {"CalculateVersionRelationships", "GetKextWithIdentifier"}
    /\ HasEvent(log, "build")
    /\ \E k \in RepositoryCandidates :
          /\ loadFailed[k]
          /\ candidateKexts[kextInfo[k].bundleIdentifier] # NULL
          /\ kextInfo[candidateKexts[kextInfo[k].bundleIdentifier]].version
                 < kextInfo[k].version

\* C37: a load request reaches the execution only when its preparation
\* returned no error: not when the target fails the gate, when the kernel's
\* table cannot be read, when the table lists the target in its own or in
\* another version, when the resolution of the target fails, when the walk
\* meets a kext loaded in another version, or when a kext fails its
\* authentication.  Each of these ends the request with an error, and an
\* execution always comes after a resolution that succeeded.
C37_ExecutionOnlyAfterPreparation ==
    [][ lastOp'.name = "LoadKextUsingOptions" =>
          LET aKext == lastOp'.arg
              request == lastOp'.request
              l == log'
              loaded == isLoaded'
              other == otherVersionIsLoaded'
              Failed(ev) == \E i \in 1..Len(l) : l[i].ev = ev /\ ~l[i].flag
              stopped ==
                  \/ ~PassesGate(aKext)
                  \/ Failed("kmod_get_info")
                  \/ request.check /\ request.kmod.ok
                        /\ (loaded[aKext] \/ other[aKext])
                  \/ Failed("resolve")
                  \/ HasEvent(l, "conflict")
                  \/ Failed("authenticate")
          IN /\ stopped => (~HasEvent(l, "execute") /\ lastOp'.result.error # "None")
             /\ \A j \in 1..Len(l) :
                   l[j].ev = "execute" =>
                       \E i \in 1..(j - 1) : l[i].ev = "resolve" /\ l[i].flag ]_vars

\* A request that did not ask for the kernel's table has met, in its walk,
\* the flag an earlier request left on the target, and ends there without
\* the execution.
C37_Witness ==
    /\ lastOp.name = "LoadKextUsingOptions"
    /\ ~lastOp.request.check
    /\ PassesGate(lastOp.arg)
    /\ HasEvent(log, "conflict")
    /\ ~HasEvent(log, "execute")
    /\ lastOp.result.error = "DependencyLoadedVersionDiffers"

=============================================================================
